---------------------------- MODULE Spec2Model ----------------------------
(***************************************************************************)
(* Tenant-scoped identity, membership and invitation workflow of the       *)
(* hirepro backend (Django + DRF), modelled as a state machine over the    *)
(* relational store.                                                       *)
(*                                                                         *)
(* Tables: users (accounts.User), companies (companies.Company),           *)
(* memberships (companies.CompanyUser), tokens (authtoken.Token), jobs     *)
(* (jobs.Job).  A table is a sequence of rows in primary-key order; a row  *)
(* of users, companies and jobs is never deleted by a handler, so its id   *)
(* is its position.  Token keys are 160 random bits: the model draws each  *)
(* new key fresh from the counter nextKey.                                 *)
(*                                                                         *)
(* Spec     : every request handler runs as one atomic step.               *)
(* SpecConc : invite, setup completion and login run statement by          *)
(*            statement in two worker processes; an invite runs inside     *)
(*            transaction.atomic() under READ COMMITTED with the unique    *)
(*            constraints of the schema.                                   *)
(***************************************************************************)
EXTENDS Integers, Sequences, FiniteSets, TLC

(***************************************************************************)
(* Bounds of the model.                                                    *)
(***************************************************************************)
MaxKeys == 4
MaxJobs == 1
\* The clock runs over this many expiry periods.
MaxNow == 2

(***************************************************************************)
(* Request inputs.  "" is a missing or empty field.                        *)
(***************************************************************************)
Emails == {"a@acme.com", "b@acme.com"}
\* An address written with an uppercase domain, and the addresses of the
\* requests that may carry it.
MixedCaseEmail == "b@ACME.com"
CasedEmails == {"a@acme.com", "b@acme.com", MixedCaseEmail}
Subdomains == {"acme", "beta"}
GoodPassword == "password1"
SetupPassword == "password2"
OtherPassword == "password3"
ShortPassword == "short"
WrongPassword == "wrongpass"
TempPassword == "uuid4"
PasswordLength ==
    [p \in {"", ShortPassword, GoodPassword, SetupPassword, WrongPassword, TempPassword} |->
        CASE p = "" -> 0
          [] p = ShortPassword -> 5
          [] p = GoodPassword -> 9
          [] p = SetupPassword -> 9
          [] p = WrongPassword -> 9
          [] OTHER -> 36]
MinPasswordLength == 8

ROLE_CHOICES == {"company_admin", "hr_manager", "hr_recruiter", "interviewer", "csr"}
STATUS_CHOICES == {"pending_setup", "active", "inactive"}
COMPANY_STATUS_CHOICES == {"pending", "active", "suspended", "rejected"}
valid_roles == {"company_admin", "hr_manager", "interviewer", "recruiter"}

Absent == "<absent>"
NoRow == 0
NoKey == 0

VARIABLES users, companies, memberships, tokens, jobs, interviewers, nextKey,
          resp, pc, req, txn, ticks

vars == <<users, companies, memberships, tokens, jobs, interviewers, nextKey,
          resp, pc, req, txn, ticks>>

\* The store as one value: what a handler reads and what it leaves behind.
DB ==
    [users |-> users, companies |-> companies, memberships |-> memberships,
     tokens |-> tokens, jobs |-> jobs, interviewers |-> interviewers,
     nextKey |-> nextKey]

(***************************************************************************)
(* Sequences as tables.                                                    *)
(***************************************************************************)
Rows(t) == {t[i] : i \in 1..Len(t)}
Ids(t) == 1..Len(t)
Min(S) == CHOOSE x \in S : \A y \in S : x <= y
RemoveAt(t, i) == [j \in 1..(Len(t) - 1) |-> IF j < i THEN t[j] ELSE t[j + 1]]

(***************************************************************************)
(* django.contrib.auth password handling.                                  *)
(***************************************************************************)
make_password(raw) == <<"pbkdf2_sha256", raw>>
check_password(raw, encoded) == encoded = make_password(raw)
has_usable_password(u) == u.password[1] /= "!"

(***************************************************************************)
(* ORM calls on the tables.                                                *)
(***************************************************************************)
\* User.objects.filter(email=e): ids of the matching rows.
UsersByEmail(us, e) == {i \in 1..Len(us) : us[i].email = e}
\* User.objects.get(Q(email=h) | Q(username=h)).
UsersByHandle(us, h) == {i \in 1..Len(us) : us[i].email = h \/ us[i].username = h}
\* AbstractUser.username is unique=True.
UsernameTaken(us, name) == \E i \in 1..Len(us) : us[i].username = name
\* BaseUserManager.normalize_email, which UserManager.create_user applies to
\* the email and not to the username: the domain part is lowercased, the
\* local part kept.  Every other email of the model is lowercase already.
normalize_email(e) == IF e = MixedCaseEmail THEN "b@acme.com" ELSE e
\* Mutant: create_user called without the password (an unusable one is stored).
NewUser_nopassword(email, raw, type, first, last) ==
    [username |-> email, email |-> normalize_email(email), password |-> <<"!", raw>>,
     user_type |-> type, first_name |-> first, last_name |-> last, phone |-> ""]
\* UserManager.create_user: the row a successful INSERT appends.
NewUser(email, raw, type, first, last) ==
    [username |-> email, email |-> normalize_email(email), password |-> make_password(raw),
     user_type |-> type, first_name |-> first, last_name |-> last, phone |-> ""]

\* Mutant: no uniqueness of the subdomain, neither checked nor constrained.
SubdomainTaken_never(cs, sd) == FALSE
\* Company.subdomain is unique=True.
SubdomainTaken(cs, sd) == \E i \in 1..Len(cs) : cs[i].subdomain = sd

\* CompanyUser.objects.filter(user=u, company=c): positions in pk order.
\* Mutant: the lookup of the membership leaves the company out.
MemberIdx_anycompany(ms, u, c) == {i \in 1..Len(ms) : ms[i].user = u}
MemberIdx(ms, u, c) == {i \in 1..Len(ms) : ms[i].user = u /\ ms[i].company = c}
\* .first() of a queryset: the lowest pk, or None.
First(S) == IF S = {} THEN NoRow ELSE Min(S)
\* Mutant: the row takes the model's default status.
NewMember_default(u, c, role, by) ==
    [user |-> u, company |-> c, role |-> role, status |-> "pending_setup", invited_by |-> by]
\* CompanyUser.objects.create(user=, company=, role=, status='active', ...)
NewMember(u, c, role, by) ==
    [user |-> u, company |-> c, role |-> role, status |-> "active", invited_by |-> by]
ActiveAdmins(ms, c) ==
    {i \in 1..Len(ms) : ms[i].company = c /\ ms[i].role = "company_admin"
                                          /\ ms[i].status = "active"}

\* Token.objects.get(key=k): Token.key is the primary key.
TokenByKey(ts, k) == {t \in ts : t.key = k}
\* Token.user is a OneToOneField.
TokenOfUser(ts, u) == {t \in ts : t.user = u}

(***************************************************************************)
(* companies/helpers.py: the authorization guard.                          *)
(***************************************************************************)
\* Mutant: a membership counts whatever its status.
is_company_member_anystatus(ms, u, c) ==
    /\ u /= NoRow
    /\ \E i \in 1..Len(ms) : ms[i].user = u /\ (c /= NoRow => ms[i].company = c)
is_company_member(ms, u, c) ==
    /\ u /= NoRow
    /\ \E i \in 1..Len(ms) :
          /\ ms[i].user = u
          /\ ms[i].status = "active"
          /\ (c /= NoRow => ms[i].company = c)

\* Mutant: an administrator's membership counts whatever its status.
is_company_admin_anystatus(ms, u, c) ==
    /\ u /= NoRow
    /\ \E i \in 1..Len(ms) :
          /\ ms[i].user = u
          /\ ms[i].role = "company_admin"
          /\ (c /= NoRow => ms[i].company = c)
is_company_admin(ms, u, c) ==
    /\ u /= NoRow
    /\ \E i \in 1..Len(ms) :
          /\ ms[i].user = u
          /\ ms[i].role = "company_admin"
          /\ ms[i].status = "active"
          /\ (c /= NoRow => ms[i].company = c)

(***************************************************************************)
(* The response of the last request: what the handler returned.            *)
(***************************************************************************)
NoResp ==
    [op |-> "none", status |-> 0, user |-> NoRow, company |-> NoRow,
     token |-> NoKey, old |-> NoKey, requires_setup |-> FALSE, mail |-> "",
     role |-> "", new_user |-> FALSE, error |-> "", sent |-> <<>>]
Response(op, code) == [NoResp EXCEPT !.op = op, !.status = code]
\* An error response: the status and the detail, nothing else.
Fail(op, code, err) == [NoResp EXCEPT !.op = op, !.status = code, !.error = err]

Out(s, r) == [db |-> s, resp |-> r]

(***************************************************************************)
(* Token issuer.                                                           *)
(***************************************************************************)
\* Token(user=u).save(): the key is generated fresh; the row is rejected when
\* the user already has one (OneToOneField).
TokenInsertFails(ts, u) == TokenOfUser(ts, u) /= {}
TokenCreate(s, u) ==
    [s EXCEPT !.tokens = @ \cup {[key |-> s.nextKey, user |-> u]},
              !.nextKey = @ + 1]
\* Token.objects.get_or_create(user=u)
\* Mutant: a fresh token replaces the user's token on every call.
get_or_create_token_fresh(s, u) ==
    TokenCreate([s EXCEPT !.tokens = @ \ TokenOfUser(@, u)], u)
get_or_create_token(s, u) ==
    IF TokenOfUser(s.tokens, u) /= {} THEN s ELSE TokenCreate(s, u)
KeyOf(s, u) == (CHOOSE t \in TokenOfUser(s.tokens, u) : TRUE).key

(***************************************************************************)
(* accounts/helpers.py: validation and creation at signup, login.          *)
(***************************************************************************)
validate_user_email(us, email) == UsersByEmail(us, email) = {}
validate_company_subdomain(cs, sd) == ~SubdomainTaken(cs, sd)

\* The set of fields validate_company_admin_signup_data reports.
validate_company_admin_signup_data(s, d) ==
    {f \in {"email", "password", "subdomain"} : d[f] = ""}
    \cup (IF d.email /= "" /\ ~validate_user_email(s.users, d.email) THEN {"email"} ELSE {})
    \cup (IF d.subdomain /= "" /\ ~validate_company_subdomain(s.companies, d.subdomain)
          THEN {"subdomain"} ELSE {})
    \cup (IF d.password /= "" /\ PasswordLength[d.password] < MinPasswordLength
          THEN {"password"} ELSE {})

validate_candidate_signup_data(s, d) ==
    {f \in {"email", "password"} : d[f] = ""}
    \cup (IF d.email /= "" /\ ~validate_user_email(s.users, d.email) THEN {"email"} ELSE {})
    \cup (IF d.password /= "" /\ PasswordLength[d.password] < MinPasswordLength
          THEN {"password"} ELSE {})

validate_login_data(d) == {f \in {"email", "password"} : d[f] = ""}

\* create_company_admin: one transaction.atomic(); an IntegrityError of either
\* INSERT rolls the whole block back and is reported by the view as a 500.
create_company_admin(s, d) ==
    IF UsernameTaken(s.users, d.email) \/ SubdomainTaken(s.companies, d.subdomain)
    THEN Out(s, Fail("company_admin_signup", 500, "IntegrityError"))
    ELSE
      LET us1 == Append(s.users, NewUser(d.email, d.password, "company_admin", "Ann", "Lee"))
          u == Len(us1)
          cs1 == Append(s.companies,
                        [name |-> "Acme", subdomain |-> d.subdomain, status |-> "pending",
                         contact_email |-> d.email, description |-> ""])
          c == Len(cs1)
          ms1 == Append(s.memberships, NewMember(u, c, "company_admin", NoRow))
          s1 == get_or_create_token(
                  [s EXCEPT !.users = us1, !.companies = cs1, !.memberships = ms1], u)
      IN Out(s1, [Response("company_admin_signup", 201) EXCEPT
                    !.user = u, !.company = c, !.token = KeyOf(s1, u)])

create_candidate(s, d) ==
    IF UsernameTaken(s.users, d.email)
    THEN Out(s, Fail("candidate_signup", 500, "IntegrityError"))
    ELSE
      LET us1 == Append(s.users, NewUser(d.email, d.password, "candidate", "Ann", "Lee"))
          u == Len(us1)
          s1 == get_or_create_token([s EXCEPT !.users = us1], u)
      IN Out(s1, [Response("candidate_signup", 201) EXCEPT !.user = u, !.token = KeyOf(s1, u)])

\* Mutant: the backend returns the user without checking the password.
authenticate_nocheck(us, handle, password) ==
    LET found == UsersByHandle(us, handle) IN
    IF Cardinality(found) = 1 THEN First(found) ELSE NoRow
\* EmailBackend.authenticate: the user, or None.
authenticate(us, handle, password) ==
    LET found == UsersByHandle(us, handle) IN
    IF Cardinality(found) = 1 /\ check_password(password, us[First(found)].password)
    THEN First(found)
    ELSE NoRow

login_user(s, d) ==
    LET u == authenticate(s.users, d.email, d.password) IN
    IF u = NoRow
    THEN Out(s, Fail("login", 401, "Invalid credentials"))
    ELSE LET s1 == get_or_create_token(s, u)
         IN Out(s1, [Response("login", 200) EXCEPT !.user = u, !.token = KeyOf(s1, u)])

(***************************************************************************)
(* accounts/views.py                                                       *)
(***************************************************************************)
company_admin_signup(s, d) ==
    IF validate_company_admin_signup_data(s, d) /= {}
    THEN Out(s, Fail("company_admin_signup", 400, "validation"))
    ELSE create_company_admin(s, d)

candidate_signup(s, d) ==
    IF validate_candidate_signup_data(s, d) /= {}
    THEN Out(s, Fail("candidate_signup", 400, "validation"))
    ELSE create_candidate(s, d)

login_view(s, d) ==
    IF validate_login_data(d) /= {}
    THEN Out(s, Fail("login", 400, "validation"))
    ELSE login_user(s, d)

\* auth_token.delete(): DELETE ... WHERE key = k
TokenDelete(ts, k) == {t \in ts : t.key /= k}
\* Mutant: validating the token consumes it.
validate_setup_token_consume(s, key) ==
    IF key = NoKey
    THEN Out(s, Fail("validate_setup_token", 400, "Token is required."))
    ELSE IF TokenByKey(s.tokens, key) = {}
    THEN Out(s, Fail("validate_setup_token", 400, "Invalid token."))
    ELSE LET u == (CHOOSE t \in TokenByKey(s.tokens, key) : TRUE).user
         IN Out([s EXCEPT !.tokens = TokenDelete(@, key)],
                [Response("validate_setup_token", 200) EXCEPT
                      !.old = key, !.user = u,
                      !.requires_setup = ~has_usable_password(s.users[u])])
validate_setup_token(s, key) ==
    IF key = NoKey
    THEN Out(s, Fail("validate_setup_token", 400, "Token is required."))
    ELSE IF TokenByKey(s.tokens, key) = {}
    THEN Out(s, Fail("validate_setup_token", 400, "Invalid token."))
    ELSE LET u == (CHOOSE t \in TokenByKey(s.tokens, key) : TRUE).user
         IN Out(s, [Response("validate_setup_token", 200) EXCEPT
                      !.old = key, !.user = u,
                      !.requires_setup = ~has_usable_password(s.users[u])])

\* user.first_name = ..; user.last_name = ..; user.set_password(..); user.save()
SetupUserSave(us, u, d) ==
    [us EXCEPT ![u].first_name = d.first_name, ![u].last_name = d.last_name,
               ![u].password = make_password(d.password),
               ![u].phone = IF "phone" \in DOMAIN d THEN d.phone ELSE @]

\* Mutant: the old token is kept and handed back (get_or_create, no delete).
complete_user_setup_keep(s, d) ==
    IF d.token = NoKey \/ TokenByKey(s.tokens, d.token) = {}
       \/ d.password = "" \/ d.first_name = "" \/ d.last_name = ""
    THEN Out(s, Fail("complete_user_setup", 400, "Invalid token."))
    ELSE
      LET u == (CHOOSE t \in TokenByKey(s.tokens, d.token) : TRUE).user
          s1 == [s EXCEPT !.users = SetupUserSave(s.users, u, d)]
      IN Out(s1, [Response("complete_user_setup", 200) EXCEPT
                    !.old = d.token, !.user = u, !.token = KeyOf(s1, u),
                    !.mail = s1.users[u].email])
\* Mutant: the user is saved before the required fields are checked.
complete_user_setup_savefirst(s, d) ==
    IF d.token = NoKey
    THEN Out(s, Fail("complete_user_setup", 400, "Token is required."))
    ELSE IF TokenByKey(s.tokens, d.token) = {}
    THEN Out(s, Fail("complete_user_setup", 400, "Invalid token."))
    ELSE
      LET u == (CHOOSE t \in TokenByKey(s.tokens, d.token) : TRUE).user
          s0 == [s EXCEPT !.users = SetupUserSave(s.users, u, d)] IN
      IF d.password = "" \/ d.first_name = "" \/ d.last_name = ""
      THEN Out(s0, Fail("complete_user_setup", 400, "field is required"))
      ELSE
        LET s1 == [s0 EXCEPT !.tokens = TokenDelete(s.tokens, d.token)]
        IN IF TokenInsertFails(s1.tokens, u)
           THEN Out(s1, Fail("complete_user_setup", 500, "IntegrityError"))
           ELSE LET s2 == TokenCreate(s1, u)
                IN Out(s2, [Response("complete_user_setup", 200) EXCEPT
                              !.old = d.token, !.user = u, !.token = KeyOf(s2, u),
                              !.mail = s2.users[u].email,
                              !.sent = <<s2.users[u].email>>])
complete_user_setup(s, d) ==
    IF d.token = NoKey
    THEN Out(s, Fail("complete_user_setup", 400, "Token is required."))
    ELSE IF TokenByKey(s.tokens, d.token) = {}
    THEN Out(s, Fail("complete_user_setup", 400, "Invalid token."))
    ELSE
      LET u == (CHOOSE t \in TokenByKey(s.tokens, d.token) : TRUE).user IN
      IF d.password = "" \/ d.first_name = "" \/ d.last_name = ""
      THEN Out(s, Fail("complete_user_setup", 400, "field is required"))
      ELSE
        LET s1 == [s EXCEPT !.users = SetupUserSave(s.users, u, d),
                            !.tokens = TokenDelete(s.tokens, d.token)]
        IN IF TokenInsertFails(s1.tokens, u)
           THEN Out(s1, Fail("complete_user_setup", 500, "IntegrityError"))
           ELSE LET s2 == TokenCreate(s1, u)
                IN Out(s2, [Response("complete_user_setup", 200) EXCEPT
                              !.old = d.token, !.user = u, !.token = KeyOf(s2, u),
                              !.mail = s2.users[u].email,
                              !.sent = <<s2.users[u].email>>])

(***************************************************************************)
(* companies/helpers.py: companies and invitations.                        *)
(***************************************************************************)
\* Company data of a request: each field holds its value, or Absent when the
\* key is not in request.data.  description stands for the optional text
\* fields (description, website, contact_phone, address), which the code
\* treats alike.
CompanyData(name, sd, mail, desc, st) ==
    [name |-> name, subdomain |-> sd, contact_email |-> mail, description |-> desc,
     status |-> st]
RequiredCompanyFields == {"name", "subdomain", "contact_email"}

\* The set of fields validate_company_data reports.
validate_company_data(s, d) ==
    {f \in RequiredCompanyFields : d[f] \in {Absent, ""}}
    \cup (IF d.subdomain \notin {Absent, ""} /\ SubdomainTaken(s.companies, d.subdomain)
          THEN {"subdomain"} ELSE {})
    \cup (IF d.status /= Absent /\ d.status \notin COMPANY_STATUS_CHOICES
          THEN {"status"} ELSE {})

\* Company.objects.create(**data): the fields of the validated data, the
\* model's defaults for the others.
CompanyRow(d) ==
    [name |-> d.name, subdomain |-> d.subdomain, contact_email |-> d.contact_email,
     description |-> IF d.description = Absent THEN "" ELSE d.description,
     status |-> IF d.status = Absent THEN "pending" ELSE d.status]

\* Company.objects.create(**data), then the creator's admin membership.
create_company(s, d, u) ==
    IF SubdomainTaken(s.companies, d.subdomain)
    THEN Out(s, Fail("create_company", 400, "IntegrityError"))
    ELSE
      LET cs1 == Append(s.companies, CompanyRow(d))
          c == Len(cs1)
          ms1 == Append(s.memberships, NewMember(u, c, "company_admin", NoRow))
      IN Out([s EXCEPT !.companies = cs1, !.memberships = ms1],
             [Response("create_company", 201) EXCEPT !.user = u, !.company = c])

\* for key, value in data.items(): setattr(company, key, value)
MergeCompany(row, d) ==
    [f \in DOMAIN row |-> IF d[f] = Absent THEN row[f] ELSE d[f]]
\* update_company: the merge and company.save(); an exception is returned as
\* the error.
update_company(s, c, d) ==
    LET row == MergeCompany(s.companies[c], d) IN
    IF \E i \in 1..Len(s.companies) : i /= c /\ s.companies[i].subdomain = row.subdomain
    THEN Out(s, Fail("update_company", 400, "IntegrityError"))
    ELSE Out([s EXCEPT !.companies[c] = row],
             [Response("update_company", 200) EXCEPT !.company = c])

\* Mutant: a re-invite never touches the role of an existing membership.
ReinviteRole_keep(existing, role) == existing
\* Mutant: a re-invite always overwrites the role.
ReinviteRole_overwrite(existing, role) == role
\* The re-invite policy: the role a member with role `existing` has after an
\* invite with role `role`.
ReinviteRole(existing, role) ==
    IF role = "company_admin" \/ existing \notin {"company_admin"} THEN role ELSE existing

\* The exceptions raised inside transaction.atomic(): they roll the block back
\* and nothing catches them.
InviteExceptions ==
    {"MultipleObjectsReturned", "IntegrityError: username", "IntegrityError: user, company"}
\* invite_company_user: [db, user, token, user_exists, error]
InviteFailed(s, err) ==
    [db |-> s, user |-> NoRow, token |-> NoKey, user_exists |-> FALSE, error |-> err]
invite_company_user(s, c, email, role, by) ==
    IF role \notin valid_roles THEN InviteFailed(s, "Invalid role")
    ELSE
      LET found == UsersByEmail(s.users, email) IN
      IF Cardinality(found) > 1 THEN InviteFailed(s, "MultipleObjectsReturned")
      ELSE IF found = {} /\ UsernameTaken(s.users, email)
      THEN InviteFailed(s, "IntegrityError: username")
      ELSE
        LET us1 == IF found = {}
                   THEN Append(s.users, NewUser(email, TempPassword, role, "", ""))
                   ELSE s.users
            u == IF found = {} THEN Len(us1) ELSE First(found)
            ex == First(MemberIdx(s.memberships, u, c))
            ms1 == IF ex = NoRow
                   THEN Append(s.memberships, NewMember(u, c, role, by))
                   ELSE [s.memberships EXCEPT ![ex].role = ReinviteRole(@, role)]
            s1 == get_or_create_token([s EXCEPT !.users = us1, !.memberships = ms1], u)
        IN [db |-> s1, user |-> u, token |-> KeyOf(s1, u), user_exists |-> found /= {},
            error |-> ""]

(***************************************************************************)
(* companies/views.py                                                      *)
(***************************************************************************)
create_company_view(s, actor, d) ==
    IF validate_company_data(s, d) /= {}
    THEN Out(s, Fail("create_company", 400, "validation"))
    ELSE create_company(s, d, actor)

update_company_view(s, actor, c, d) ==
    IF ~is_company_admin(s.memberships, actor, NoRow)
    THEN Out(s, Fail("update_company", 403, "permission"))
    ELSE IF ~is_company_admin(s.memberships, actor, c)
    THEN Out(s, Fail("update_company", 403,
                     "You do not have permission to update this company."))
    ELSE IF c \notin 1..Len(s.companies)
    THEN Out(s, Fail("update_company", 404, "Not found."))
    ELSE IF validate_company_data(s, d) /= {}
    THEN Out(s, Fail("update_company", 400, "validation"))
    ELSE update_company(s, c, d)

\* get_company and list_company_users: IsCompanyMember, then the membership in
\* the company, then get_object_or_404; they read only.
get_company(s, actor, c) ==
    IF ~is_company_member(s.memberships, actor, NoRow)
    THEN Out(s, Fail("get_company", 403, "permission"))
    ELSE IF ~is_company_member(s.memberships, actor, c)
    THEN Out(s, Fail("get_company", 403, "You do not have access to this company."))
    ELSE IF c \notin 1..Len(s.companies)
    THEN Out(s, Fail("get_company", 404, "Not found."))
    ELSE Out(s, [Response("get_company", 200) EXCEPT !.company = c])
list_company_users(s, actor, c) ==
    IF ~is_company_member(s.memberships, actor, NoRow)
    THEN Out(s, Fail("list_company_users", 403, "permission"))
    ELSE IF ~is_company_member(s.memberships, actor, c)
    THEN Out(s, Fail("list_company_users", 403, "You do not have access to this company."))
    ELSE IF c \notin 1..Len(s.companies)
    THEN Out(s, Fail("list_company_users", 404, "Not found."))
    ELSE Out(s, [Response("list_company_users", 200) EXCEPT !.company = c])

\* The checks of invite_company_user_view before it calls the helper: the pair
\* <<status, detail>> of the refusal, or <<0, "">>.
invite_view_guard(s, actor, c, email, role) ==
    IF ~is_company_admin(s.memberships, actor, NoRow) THEN <<403, "permission">>
    ELSE IF c \notin 1..Len(s.companies) THEN <<404, "Company not found.">>
    ELSE IF ~is_company_admin(s.memberships, actor, c) THEN <<403, "permission">>
    ELSE IF email = "" THEN <<400, "Email is required.">>
    ELSE IF role = "" THEN <<400, "Role is required.">>
    ELSE <<0, "">>

\* send_email(..., to_email=email, ...): the notifications a successful invite
\* dispatches, by recipient (InviteMail_none: a mutant that sends nothing).
InviteMail_none(email) == <<>>
InviteMail(email) == <<email>>
\* The 201 response of an invite, with the mail the helper has sent.
InviteCreated(op, us, c, role, email, u, key, user_exists) ==
    [Response(op, 201) EXCEPT
        !.sent = InviteMail(email),
        !.company = c, !.role = role, !.user = u, !.token = key, !.mail = email,
        !.new_user = ~user_exists,
        !.requires_setup = ~has_usable_password(us[u])]
\* The response of an invite whose helper failed.
InviteError(op, c, role, email, err) ==
    IF err \in InviteExceptions
    THEN [Fail(op, 500, err) EXCEPT !.company = c, !.role = role, !.mail = email]
    ELSE [Fail(op, 400, err) EXCEPT !.company = c, !.role = role]

invite_company_user_view(s, actor, c, email, role) ==
    LET g == invite_view_guard(s, actor, c, email, role) IN
    IF g[1] /= 0 THEN Out(s, Fail("invite_company_user", g[1], g[2]))
    ELSE
      LET r == invite_company_user(s, c, email, role, actor) IN
      IF r.error /= "" THEN Out(s, InviteError("invite_company_user", c, role, email, r.error))
      ELSE Out(r.db, InviteCreated("invite_company_user", r.db.users, c, role, email,
                                   r.user, r.token, r.user_exists))

\* validate_company_user_data(data, update=True)
validate_company_user_data(d) ==
    (IF d.role /= Absent /\ d.role \notin ROLE_CHOICES THEN {"role"} ELSE {})
    \cup (IF d.status /= Absent /\ d.status \notin STATUS_CHOICES THEN {"status"} ELSE {})

update_company_user(s, actor, c, uid, d) ==
    LET R(code, err) == Fail("update_company_user", code, err)
        i == First(MemberIdx(s.memberships, uid, c))
    IN
    IF ~is_company_admin(s.memberships, actor, NoRow) THEN Out(s, R(403, "permission"))
    ELSE IF ~is_company_admin(s.memberships, actor, c) THEN Out(s, R(403, "permission"))
    ELSE IF i = NoRow THEN Out(s, R(404, "Not found."))
    ELSE IF validate_company_user_data(d) /= {} THEN Out(s, R(400, "validation"))
    ELSE Out([s EXCEPT !.memberships[i].role = IF d.role = Absent THEN @ ELSE d.role,
                       !.memberships[i].status = IF d.status = Absent THEN @ ELSE d.status],
             [Response("update_company_user", 200) EXCEPT !.company = c, !.user = uid])

\* Mutant: removing yourself is refused whatever the number of admins.
OnlyAdminRefusal_self(ms, actor, c, uid) == actor = uid
\* The guard of remove_company_user: "Can't remove yourself if you're the only
\* admin".  TRUE when the request is refused.
OnlyAdminRefusal(ms, actor, c, uid) ==
    /\ actor = uid
    /\ {i \in ActiveAdmins(ms, c) : ms[i].user /= uid} = {}

remove_company_user(s, actor, c, uid) ==
    LET R(code, err) == [Response("remove_company_user", code) EXCEPT
                           !.company = c, !.user = uid, !.error = err]
        i == First(MemberIdx(s.memberships, uid, c))
    IN
    IF ~is_company_admin(s.memberships, actor, NoRow) THEN Out(s, R(403, "permission"))
    ELSE IF ~is_company_admin(s.memberships, actor, c) THEN Out(s, R(403, "permission"))
    ELSE IF OnlyAdminRefusal(s.memberships, actor, c, uid) THEN Out(s, R(400, "only admin"))
    ELSE IF i = NoRow THEN Out(s, R(404, "Not found."))
    ELSE Out([s EXCEPT !.memberships = RemoveAt(@, i)],
             [R(204, "") EXCEPT !.role = s.memberships[i].role])

(***************************************************************************)
(* jobs/helpers.py, jobs/views.py                                          *)
(***************************************************************************)
\* create_job: the job belongs to the company of the actor's first active
\* membership.
create_job_view(s, actor, valid) ==
    LET R(code, err) == Fail("create_job", code, err)
        mine == {i \in 1..Len(s.memberships) :
                    s.memberships[i].user = actor /\ s.memberships[i].status = "active"}
    IN
    IF ~is_company_member(s.memberships, actor, NoRow) THEN Out(s, R(403, "permission"))
    ELSE IF ~valid THEN Out(s, R(400, "validation"))
    ELSE LET c == s.memberships[First(mine)].company
         IN Out([s EXCEPT !.jobs = Append(@, [company |-> c, created_by |-> actor])],
                [Response("create_job", 201) EXCEPT !.company = c])

\* job.interviewers.get_or_create(interviewer=user, defaults=...), then the
\* status is set to 'active' when the row was there with another status.
JobInterviewerUpsert(rows, job, u) ==
    {r \in rows : ~(r.job = job /\ r.interviewer = u)}
    \cup {[job |-> job, interviewer |-> u, status |-> "active"]}

invite_interviewer_view(s, actor, job, email) ==
    LET R(code, err) == Fail("invite_interviewer", code, err) IN
    IF ~is_company_admin(s.memberships, actor, NoRow) THEN Out(s, R(403, "permission"))
    ELSE IF job \notin 1..Len(s.jobs) THEN Out(s, R(404, "Job not found."))
    ELSE
      LET c == s.jobs[job].company
          allowed == \E i \in MemberIdx(s.memberships, actor, c) :
                        /\ s.memberships[i].role \in {"company_admin", "hr_manager"}
                        /\ s.memberships[i].status = "active"
      IN
      IF ~allowed THEN Out(s, R(403, "permission"))
      ELSE IF email = "" THEN Out(s, R(400, "Email is required."))
      ELSE
        LET r == invite_company_user(s, c, email, "interviewer", actor) IN
        IF r.error /= ""
        THEN Out(s, InviteError("invite_interviewer", c, "interviewer", email, r.error))
        ELSE Out([r.db EXCEPT !.interviewers = JobInterviewerUpsert(@, job, r.user)],
                 InviteCreated("invite_interviewer", r.db.users, c, "interviewer", email,
                               r.user, r.token, r.user_exists))

(***************************************************************************)
(* The state machine.  A request is authenticated by a bearer token, so    *)
(* the acting user of a guarded request is a user who holds a token.       *)
(***************************************************************************)
Procs == {"w1", "w2"}
\* What a worker remembers of the request it is serving: the request's fields
\* and the objects the handler has loaded (snap: the row it read and will save).
Idle ==
    [op |-> "idle", actor |-> NoRow, company |-> NoRow, email |-> "", role |-> "",
     user |-> NoRow, user_exists |-> FALSE, key |-> NoKey, password |-> "", snap |-> <<>>,
     subdomain |-> ""]
\* The uncommitted writes of a worker's open transaction: the user row it
\* inserted, the membership row it inserted or updated, the token key it inserted.
NoTxn == [user |-> <<>>, member |-> <<>>, token |-> NoKey]

Init ==
    /\ users = <<>>
    /\ companies = <<>>
    /\ memberships = <<>>
    /\ tokens = {}
    /\ jobs = <<>>
    /\ interviewers = {}
    /\ nextKey = 1
    /\ resp = NoResp
    /\ pc = [p \in Procs |-> "idle"]
    /\ req = [p \in Procs |-> Idle]
    /\ txn = [p \in Procs |-> NoTxn]
    /\ ticks = <<>>

Authenticated == {t.user : t \in tokens}
Keys == 1..MaxKeys
\* Every token a handler may have to create still fits the bound on keys.
KeyRoom == nextKey <= MaxKeys

\* The handler's result becomes the new store and the response.
Do(r) ==
    /\ users' = r.db.users
    /\ companies' = r.db.companies
    /\ memberships' = r.db.memberships
    /\ tokens' = r.db.tokens
    /\ jobs' = r.db.jobs
    /\ interviewers' = r.db.interviewers
    /\ nextKey' = r.db.nextKey
    /\ resp' = r.resp
    /\ UNCHANGED <<pc, req, txn, ticks>>

\* The actions take the sets their request fields are drawn from, so that each
\* specification below can pick the inputs its scenarios need.
CompanyAdminSignup(SD) ==
    /\ KeyRoom
    /\ \E e \in Emails \cup {""}, pw \in {ShortPassword, GoodPassword}, sd \in SD :
          Do(company_admin_signup(DB, [email |-> e, password |-> pw, subdomain |-> sd]))

CandidateSignup ==
    /\ KeyRoom
    /\ \E e \in Emails, pw \in {"", GoodPassword} :
          Do(candidate_signup(DB, [email |-> e, password |-> pw]))

Login ==
    /\ KeyRoom
    /\ \E e \in Emails \cup {""}, pw \in {GoodPassword, SetupPassword, WrongPassword} :
          Do(login_view(DB, [email |-> e, password |-> pw]))

ValidateSetupToken ==
    \E k \in Keys \cup {NoKey} : Do(validate_setup_token(DB, k))

CompleteUserSetup ==
    /\ KeyRoom
    /\ \E k \in Keys \cup {NoKey}, pw \in {"", SetupPassword} :
          \E d \in {[token |-> k, password |-> pw, first_name |-> "Bo",
                      last_name |-> "Ray"],
                     [token |-> k, password |-> pw, first_name |-> "Bo",
                      last_name |-> "Ray", phone |-> "555"]} :
              Do(complete_user_setup(DB, d))

CreateCompany(SD) ==
    \E a \in Authenticated, sd \in SD, st \in {Absent, "active"} :
        Do(create_company_view(DB, a, CompanyData("Beta", sd, "a@acme.com", Absent, st)))

\* PUT/PATCH of a company with a subset of its fields.
UpdateCompany ==
    \E a \in Authenticated, c \in 1..Len(companies),
       nm \in {Absent, "Acme Ltd"}, sd \in Subdomains \cup {Absent},
       mail \in {Absent, "hr@acme.com"}, desc \in {Absent, "We hire"},
       st \in {Absent, "suspended"} :
        Do(update_company_view(DB, a, c, CompanyData(nm, sd, mail, desc, st)))

\* The operator's admin actions approve_companies / suspend_companies:
\* queryset.update(status=...)
OperatorSetStatus ==
    \E c \in 1..Len(companies), st \in {"active", "suspended"} :
        /\ companies' = [companies EXCEPT ![c].status = st]
        /\ resp' = [Response("admin_set_status", 200) EXCEPT !.company = c]
        /\ UNCHANGED <<users, memberships, tokens, jobs, interviewers, nextKey,
                       pc, req, txn, ticks>>

InviteCompanyUser(RoleInputs) ==
    /\ KeyRoom
    /\ \E a \in Authenticated, c \in 1..Len(companies), e \in Emails \cup {""},
          r \in RoleInputs :
          Do(invite_company_user_view(DB, a, c, e, r))

UpdateCompanyUser ==
    \E a \in Authenticated, c \in 1..Len(companies), u \in 1..Len(users),
       r \in {Absent, "company_admin", "hr_manager"},
       st \in {Absent, "active", "inactive", "pending_setup"} :
        Do(update_company_user(DB, a, c, u, [role |-> r, status |-> st]))

RemoveCompanyUser ==
    \E a \in Authenticated, c \in 1..Len(companies), u \in 1..Len(users) :
        Do(remove_company_user(DB, a, c, u))

CreateJob ==
    /\ Len(jobs) < MaxJobs
    /\ \E a \in Authenticated, valid \in BOOLEAN : Do(create_job_view(DB, a, valid))

InviteInterviewer ==
    /\ KeyRoom
    /\ \E a \in Authenticated, j \in 1..Len(jobs), e \in Emails \cup {""} :
          Do(invite_interviewer_view(DB, a, j, e))

(***************************************************************************)
(* Spec: accounts, tokens and invitations of one tenant.                   *)
(***************************************************************************)
Next ==
    \/ CompanyAdminSignup({"acme"})
    \/ CandidateSignup
    \/ Login
    \/ ValidateSetupToken
    \/ CompleteUserSetup
    \/ InviteCompanyUser({"hr_manager", "csr", "recruiter"})

Spec == Init /\ [][Next]_vars

(***************************************************************************)
(* SpecJobs: jobs and their interviewers in one tenant.                    *)
(***************************************************************************)
NextJobs ==
    \/ CompanyAdminSignup(Subdomains)
    \/ InviteCompanyUser({"hr_manager"})
    \/ CreateJob
    \/ InviteInterviewer

SpecJobs == Init /\ [][NextJobs]_vars

(***************************************************************************)
(* SpecMembers: the membership ledger of one tenant.                       *)
(***************************************************************************)
NextMembers ==
    \/ CompanyAdminSignup({"acme"})
    \/ InviteCompanyUser({"company_admin", "hr_manager", ""})
    \/ UpdateCompanyUser
    \/ RemoveCompanyUser

SpecMembers == Init /\ [][NextMembers]_vars

(***************************************************************************)
(* SpecTenants: company creation and the ledger of two tenants.            *)
(***************************************************************************)
NextTenants ==
    \/ CompanyAdminSignup(Subdomains)
    \/ CreateCompany(Subdomains)
    \/ UpdateCompanyUser
    \/ RemoveCompanyUser

SpecTenants == Init /\ [][NextTenants]_vars

\* The companies: signup, explicit creation, update and the operator.
NextCompanies ==
    \/ CompanyAdminSignup(Subdomains)
    \/ CreateCompany(Subdomains)
    \/ UpdateCompany
    \/ OperatorSetStatus

SpecCompanies == Init /\ [][NextCompanies]_vars

\* Signups and invites whose email may be written with an uppercase domain.
AdminSignupCased ==
    /\ KeyRoom
    /\ \E e \in CasedEmails, sd \in Subdomains :
          Do(company_admin_signup(DB, [email |-> e, password |-> GoodPassword,
                                       subdomain |-> sd]))
CandidateSignupCased ==
    /\ KeyRoom
    /\ \E e \in CasedEmails :
          Do(candidate_signup(DB, [email |-> e, password |-> GoodPassword]))
InviteCased ==
    /\ KeyRoom
    /\ \E a \in Authenticated, c \in 1..Len(companies), e \in CasedEmails,
          r \in {"hr_manager"} :
          Do(invite_company_user_view(DB, a, c, e, r))

NextCased ==
    \/ AdminSignupCased
    \/ CandidateSignupCased
    \/ InviteCased

SpecCased == Init /\ [][NextCased]_vars


(***************************************************************************)
(* SpecConc: two workers serve requests at the same time.  Every ORM       *)
(* statement is one step.  The statements of invite_company_user run in    *)
(* one transaction (READ COMMITTED): its writes stay in txn[p] until the   *)
(* commit, an INSERT waits while another open transaction holds an         *)
(* uncommitted row with the same unique key, and fails with IntegrityError *)
(* when a committed row has it.  complete_user_setup and login_user have   *)
(* no transaction: each of their statements commits by itself.             *)
(***************************************************************************)
\* unique_together = ['user', 'company']: the INSERT of a second row fails.
MemberInsertFails_never(ms, u, c) == FALSE
MemberInsertFails(ms, u, c) == MemberIdx(ms, u, c) /= {}

\* Another worker's open transaction holds an uncommitted row with this key.
PendingUser(p, name) ==
    \E q \in Procs \ {p} : txn[q].user /= <<>> /\ txn[q].user[1].username = name
\* Mutant: the INSERT does not wait for the other transaction's row.
PendingMember_never(p, u, c) == FALSE
PendingMember(p, u, c) ==
    \E q \in Procs \ {p} :
        /\ txn[q].member /= <<>>
        /\ txn[q].member[1].kind = "insert"
        /\ txn[q].member[1].row.user = u
        /\ txn[q].member[1].row.company = c
PendingMemberUpdate(p, i) ==
    \E q \in Procs \ {p} :
        txn[q].member /= <<>> /\ txn[q].member[1].kind = "update" /\ txn[q].member[1].idx = i
PendingToken(p, u) ==
    \E q \in Procs \ {p} : txn[q].token /= NoKey /\ req[q].user = u

InFlight == {p \in Procs : pc[p] /= "idle"}
\* Every request in flight can still draw a token key within the bound.
KeyRoomFor(p) == nextKey + Cardinality(InFlight) <= MaxKeys

Goto(p, label, r) ==
    /\ pc' = [pc EXCEPT ![p] = label]
    /\ req' = [req EXCEPT ![p] = r]
    /\ UNCHANGED ticks
\* The request ends: the worker answers and is free again.
Answer(p, r) ==
    /\ resp' = r
    /\ pc' = [pc EXCEPT ![p] = "idle"]
    /\ req' = [req EXCEPT ![p] = Idle]
    /\ UNCHANGED ticks

\* The signups, each as one step, while no open transaction holds the username:
\* they put the first administrator and a user without membership in the store.
ConcAdminSignup ==
    /\ KeyRoom
    /\ ~PendingUser("", "a@acme.com")
    /\ Do(company_admin_signup(DB, [email |-> "a@acme.com", password |-> GoodPassword,
                                    subdomain |-> "acme"]))
ConcCandidateSignup ==
    /\ KeyRoom
    /\ ~PendingUser("", "b@acme.com")
    /\ Do(candidate_signup(DB, [email |-> "b@acme.com", password |-> GoodPassword]))

\* invite_company_user_view up to the call of the helper, and the helper's
\* role check.
InviteStart(p) ==
    /\ pc[p] = "idle"
    /\ KeyRoomFor(p)
    /\ \E a \in Authenticated, c \in 1..Len(companies), e \in Emails,
          r \in {"hr_manager", "company_admin", "csr"} :
          LET g == invite_view_guard(DB, a, c, e, r) IN
          IF g[1] /= 0
          THEN /\ Answer(p, Fail("invite_company_user", g[1], g[2]))
               /\ UNCHANGED <<users, companies, memberships, tokens, jobs, interviewers,
                              nextKey, txn>>
          ELSE IF r \notin valid_roles
          THEN /\ Answer(p, InviteError("invite_company_user", c, r, e, "Invalid role"))
               /\ UNCHANGED <<users, companies, memberships, tokens, jobs, interviewers,
                              nextKey, txn>>
          ELSE /\ Goto(p, "inv_get_user",
                       [Idle EXCEPT !.op = "invite_company_user", !.actor = a,
                                    !.company = c, !.email = e, !.role = r])
               /\ UNCHANGED <<users, companies, memberships, tokens, jobs, interviewers,
                              nextKey, resp, txn>>

\* An exception inside transaction.atomic(): the block is rolled back and the
\* view, which catches nothing, answers 500.
\* Mutant: the mail had been dispatched inside the block before the exception.
InviteAbort_mailed(p, err) ==
    /\ txn' = [txn EXCEPT ![p] = NoTxn]
    /\ Answer(p, [InviteError(req[p].op, req[p].company, req[p].role, req[p].email, err)
                     EXCEPT !.sent = <<req[p].email>>])
    /\ UNCHANGED <<users, companies, memberships, tokens, jobs, interviewers, nextKey>>
InviteAbort(p, err) ==
    /\ txn' = [txn EXCEPT ![p] = NoTxn]
    /\ Answer(p, InviteError(req[p].op, req[p].company, req[p].role, req[p].email, err))
    /\ UNCHANGED <<users, companies, memberships, tokens, jobs, interviewers, nextKey>>

\* User.objects.get(email=email)
InviteGetUser(p) ==
    /\ pc[p] = "inv_get_user"
    /\ LET found == UsersByEmail(users, req[p].email) IN
       IF Cardinality(found) > 1 THEN InviteAbort(p, "MultipleObjectsReturned")
       ELSE /\ IF found = {}
               THEN Goto(p, "inv_create_user", req[p])
               ELSE Goto(p, "inv_get_member",
                         [req[p] EXCEPT !.user = First(found), !.user_exists = TRUE])
            /\ UNCHANGED <<users, companies, memberships, tokens, jobs, interviewers,
                           nextKey, resp, txn>>

\* User.objects.create_user(username=email, ...)
\* Mutant: the user is created outside the atomic block and committed at once.
InviteCreateUser_autocommit(p) ==
    /\ pc[p] = "inv_create_user"
    /\ ~PendingUser(p, req[p].email)
    /\ IF UsernameTaken(users, req[p].email)
       THEN InviteAbort(p, "IntegrityError: username")
       ELSE /\ users' = Append(users, NewUser(req[p].email, TempPassword, req[p].role,
                                              "", ""))
            /\ Goto(p, "inv_get_member", [req[p] EXCEPT !.user = Len(users) + 1])
            /\ UNCHANGED <<companies, memberships, tokens, jobs, interviewers,
                           nextKey, resp, txn>>
InviteCreateUser(p) ==
    /\ pc[p] = "inv_create_user"
    /\ ~PendingUser(p, req[p].email)
    /\ IF UsernameTaken(users, req[p].email)
       THEN InviteAbort(p, "IntegrityError: username")
       ELSE /\ txn' = [txn EXCEPT ![p].user =
                          <<NewUser(req[p].email, TempPassword, req[p].role, "", "")>>]
            /\ Goto(p, "inv_get_member", req[p])
            /\ UNCHANGED <<users, companies, memberships, tokens, jobs, interviewers,
                           nextKey, resp>>

\* CompanyUser.objects.filter(user=user, company=company).first() and the
\* branch taken on it.
InviteGetMember(p) ==
    /\ pc[p] = "inv_get_member"
    /\ LET ex == IF txn[p].user /= <<>> THEN NoRow
                 ELSE First(MemberIdx(memberships, req[p].user, req[p].company))
       IN IF ex = NoRow THEN Goto(p, "inv_create_member", req[p])
          ELSE IF ReinviteRole(memberships[ex].role, req[p].role) /= memberships[ex].role
          THEN Goto(p, "inv_update_member",
                    [req[p] EXCEPT !.snap =
                        <<[idx |-> ex,
                           row |-> [memberships[ex] EXCEPT !.role = req[p].role]]>>])
          ELSE Goto(p, "inv_token", req[p])
    /\ UNCHANGED <<users, companies, memberships, tokens, jobs, interviewers,
                   nextKey, resp, txn>>

\* CompanyUser.objects.create(user=user, company=company, role=role, ...)
InviteCreateMember(p) ==
    /\ pc[p] = "inv_create_member"
    /\ ~PendingMember(p, req[p].user, req[p].company)
    /\ IF txn[p].user = <<>> /\ MemberInsertFails(memberships, req[p].user, req[p].company)
       THEN InviteAbort(p, "IntegrityError: user, company")
       ELSE /\ txn' = [txn EXCEPT ![p].member =
                          <<[kind |-> "insert", idx |-> NoRow,
                             row |-> NewMember(req[p].user, req[p].company, req[p].role,
                                               req[p].actor)]>>]
            /\ Goto(p, "inv_token", req[p])
            /\ UNCHANGED <<users, companies, memberships, tokens, jobs, interviewers,
                           nextKey, resp>>

\* existing_company_user.role = role; existing_company_user.save()
InviteUpdateMember(p) ==
    /\ pc[p] = "inv_update_member"
    /\ ~PendingMemberUpdate(p, req[p].snap[1].idx)
    /\ txn' = [txn EXCEPT ![p].member =
                  <<[kind |-> "update", idx |-> req[p].snap[1].idx,
                     row |-> req[p].snap[1].row]>>]
    /\ Goto(p, "inv_token", req[p])
    /\ UNCHANGED <<users, companies, memberships, tokens, jobs, interviewers,
                   nextKey, resp>>

\* Token.objects.get_or_create(user=user)
InviteToken(p) ==
    /\ pc[p] = "inv_token"
    /\ IF txn[p].user = <<>> /\ TokenOfUser(tokens, req[p].user) /= {}
       THEN UNCHANGED <<txn, nextKey>>
       ELSE /\ txn[p].user /= <<>> \/ ~PendingToken(p, req[p].user)
            /\ txn' = [txn EXCEPT ![p].token = nextKey]
            /\ nextKey' = nextKey + 1
    /\ Goto(p, "inv_commit", req[p])
    /\ UNCHANGED <<users, companies, memberships, tokens, jobs, interviewers, resp>>

\* The end of the atomic block: the transaction's rows become visible.  The
\* helper goes on with the user and token objects it holds in memory.
InviteCommit(p) ==
    /\ pc[p] = "inv_commit"
    /\ LET t == txn[p]
           us1 == users \o t.user
           u == IF t.user /= <<>> THEN Len(us1) ELSE req[p].user
           ms1 == IF t.member = <<>> THEN memberships
                  ELSE IF t.member[1].kind = "insert"
                  THEN Append(memberships, [t.member[1].row EXCEPT !.user = u])
                  ELSE [memberships EXCEPT ![t.member[1].idx] = t.member[1].row]
           ts1 == IF t.token = NoKey THEN tokens
                  ELSE tokens \cup {[key |-> t.token, user |-> u]}
           key == IF t.token /= NoKey THEN t.token
                  ELSE IF TokenOfUser(tokens, u) = {} THEN NoKey
                  ELSE (CHOOSE k \in TokenOfUser(tokens, u) : TRUE).key
       IN /\ users' = us1
          /\ memberships' = ms1
          /\ tokens' = ts1
          /\ Goto(p, "inv_mail", [req[p] EXCEPT !.user = u, !.key = key,
                                                !.snap = <<us1[u]>>])
    /\ txn' = [txn EXCEPT ![p] = NoTxn]
    /\ UNCHANGED <<companies, jobs, interviewers, nextKey, resp>>

\* After the block: send_email(...), the return to the view and its 201.
InviteSendMail(p) ==
    /\ pc[p] = "inv_mail"
    /\ Answer(p, InviteCreated(req[p].op, [users EXCEPT ![req[p].user] = req[p].snap[1]],
                               req[p].company, req[p].role, req[p].email, req[p].user,
                               req[p].key, req[p].user_exists))
    /\ UNCHANGED <<users, companies, memberships, tokens, jobs, interviewers, nextKey,
                   txn>>

\* The password a worker submits in complete_user_setup: the two workers
\* submit different ones.
SetupPasswordOf(p) == IF p = "w1" THEN SetupPassword ELSE OtherPassword

\* complete_user_setup: Token.objects.get(key=token_key); auth_token.user
SetupStart(p) ==
    /\ pc[p] = "idle"
    /\ KeyRoomFor(p)
    /\ \E k \in Keys :
          IF TokenByKey(tokens, k) = {}
          THEN /\ Answer(p, Fail("complete_user_setup", 400, "Invalid token."))
               /\ UNCHANGED <<users, companies, memberships, tokens, jobs, interviewers,
                              nextKey, txn>>
          ELSE LET u == (CHOOSE t \in TokenByKey(tokens, k) : TRUE).user IN
               /\ Goto(p, "su_save",
                       [Idle EXCEPT !.op = "complete_user_setup", !.key = k, !.user = u,
                                    !.password = SetupPasswordOf(p),
                                    !.snap = <<users[u]>>])
               /\ UNCHANGED <<users, companies, memberships, tokens, jobs, interviewers,
                              nextKey, resp, txn>>

\* user.save(): every column is written from the object loaded at the start.
SetupSave(p) ==
    /\ pc[p] = "su_save"
    /\ users' = SetupUserSave([users EXCEPT ![req[p].user] = req[p].snap[1]], req[p].user,
                              [password |-> req[p].password, first_name |-> "Bo",
                               last_name |-> "Ray"])
    /\ Goto(p, "su_delete", req[p])
    /\ UNCHANGED <<companies, memberships, tokens, jobs, interviewers, nextKey, resp, txn>>

\* auth_token.delete()
SetupDelete(p) ==
    /\ pc[p] = "su_delete"
    /\ tokens' = TokenDelete(tokens, req[p].key)
    /\ Goto(p, "su_create", req[p])
    /\ UNCHANGED <<users, companies, memberships, jobs, interviewers, nextKey, resp, txn>>

\* Token.objects.create(user=user), then the mail and the 200; an
\* IntegrityError is not caught and answers 500.
SetupCreate(p) ==
    /\ pc[p] = "su_create"
    /\ ~PendingToken(p, req[p].user)
    /\ IF TokenInsertFails(tokens, req[p].user)
       THEN /\ Answer(p, [Fail("complete_user_setup", 500, "IntegrityError") EXCEPT
                             !.old = req[p].key, !.user = req[p].user])
            /\ UNCHANGED <<tokens, nextKey>>
       ELSE /\ tokens' = tokens \cup {[key |-> nextKey, user |-> req[p].user]}
            /\ nextKey' = nextKey + 1
            /\ Answer(p, [Response("complete_user_setup", 200) EXCEPT
                             !.old = req[p].key, !.user = req[p].user, !.token = nextKey,
                             !.mail = users[req[p].user].email,
                             !.sent = <<users[req[p].user].email>>])
    /\ UNCHANGED <<users, companies, memberships, jobs, interviewers, txn>>

\* login_user: authenticate(...)
LoginStart(p) ==
    /\ pc[p] = "idle"
    /\ KeyRoomFor(p)
    /\ \E e \in Emails, pw \in {GoodPassword, SetupPassword, OtherPassword} :
          LET u == authenticate(users, e, pw) IN
          IF u = NoRow
          THEN Answer(p, Fail("login", 401, "Invalid credentials"))
          ELSE /\ Goto(p, "lg_token", [Idle EXCEPT !.op = "login", !.user = u])
               /\ UNCHANGED resp
    /\ UNCHANGED <<users, companies, memberships, tokens, jobs, interviewers, nextKey, txn>>

\* login_user: Token.objects.get_or_create(user=user).  A create that loses
\* to another INSERT is retried as a get, so the statement acts as one step.
LoginToken(p) ==
    /\ pc[p] = "lg_token"
    /\ IF TokenOfUser(tokens, req[p].user) /= {}
       THEN /\ UNCHANGED <<tokens, nextKey>>
            /\ Answer(p, [Response("login", 200) EXCEPT
                             !.user = req[p].user,
                             !.token = (CHOOSE t \in TokenOfUser(tokens, req[p].user) : TRUE).key])
       ELSE /\ ~PendingToken(p, req[p].user)
            /\ tokens' = tokens \cup {[key |-> nextKey, user |-> req[p].user]}
            /\ nextKey' = nextKey + 1
            /\ Answer(p, [Response("login", 200) EXCEPT
                             !.user = req[p].user, !.token = nextKey])
    /\ UNCHANGED <<users, companies, memberships, jobs, interviewers, txn>>

NextConc ==
    \/ ConcAdminSignup
    \/ ConcCandidateSignup
    \/ \E p \in Procs : InviteStart(p)
    \/ \E p \in Procs : InviteGetUser(p)
    \/ \E p \in Procs : InviteCreateUser(p)
    \/ \E p \in Procs : InviteGetMember(p)
    \/ \E p \in Procs : InviteCreateMember(p)
    \/ \E p \in Procs : InviteUpdateMember(p)
    \/ \E p \in Procs : InviteToken(p)
    \/ \E p \in Procs : InviteCommit(p)
    \/ \E p \in Procs : InviteSendMail(p)
    \/ \E p \in Procs : SetupStart(p)
    \/ \E p \in Procs : SetupSave(p)
    \/ \E p \in Procs : SetupDelete(p)
    \/ \E p \in Procs : SetupCreate(p)
    \/ \E p \in Procs : LoginStart(p)
    \/ \E p \in Procs : LoginToken(p)

SpecConc == Init /\ [][NextConc]_vars

\* The invites alone, statement by statement on two workers, after the
\* signups that give them an administrator and an existing user.
NextInvites ==
    \/ ConcAdminSignup
    \/ ConcCandidateSignup
    \/ \E p \in Procs : InviteStart(p)
    \/ \E p \in Procs : InviteGetUser(p)
    \/ \E p \in Procs : InviteCreateUser(p)
    \/ \E p \in Procs : InviteGetMember(p)
    \/ \E p \in Procs : InviteCreateMember(p)
    \/ \E p \in Procs : InviteUpdateMember(p)
    \/ \E p \in Procs : InviteToken(p)
    \/ \E p \in Procs : InviteCommit(p)
    \/ \E p \in Procs : InviteSendMail(p)

SpecInvites == Init /\ [][NextInvites]_vars

(***************************************************************************)
(* remove_company_user statement by statement.  The view opens no          *)
(* transaction and takes no lock: the permission query, the count of the   *)
(* other administrators, the SELECT of the row and its DELETE each commit  *)
(* by themselves, and another worker's statements may run between them.    *)
(***************************************************************************)
\* IsCompanyAdmin and is_company_admin(request, company_id).  Memberships of
\* the company only disappear in this specification, so the two queries are
\* read as one.
RemoveStart(p) ==
    /\ pc[p] = "idle"
    /\ \E a \in Authenticated, c \in 1..Len(companies), u \in 1..Len(users) :
          IF is_company_admin(memberships, a, NoRow) /\ is_company_admin(memberships, a, c)
          THEN /\ Goto(p, "rm_count", [Idle EXCEPT !.op = "remove_company_user",
                                                   !.actor = a, !.company = c, !.user = u])
               /\ UNCHANGED resp
          ELSE Answer(p, [Fail("remove_company_user", 403, "permission") EXCEPT
                             !.company = c, !.user = u])
    /\ UNCHANGED <<users, companies, memberships, tokens, jobs, interviewers, nextKey, txn>>

\* "Can't remove yourself if you're the only admin": the count query.
RemoveCount(p) ==
    /\ pc[p] = "rm_count"
    /\ IF OnlyAdminRefusal(memberships, req[p].actor, req[p].company, req[p].user)
       THEN Answer(p, [Fail("remove_company_user", 400, "only admin") EXCEPT
                          !.company = req[p].company, !.user = req[p].user])
       ELSE /\ Goto(p, "rm_get", req[p])
            /\ UNCHANGED resp
    /\ UNCHANGED <<users, companies, memberships, tokens, jobs, interviewers, nextKey, txn>>

\* get_object_or_404(CompanyUser, company_id=..., user_id=...).
RemoveGet(p) ==
    /\ pc[p] = "rm_get"
    /\ IF MemberIdx(memberships, req[p].user, req[p].company) = {}
       THEN Answer(p, [Fail("remove_company_user", 404, "Not found.") EXCEPT
                          !.company = req[p].company, !.user = req[p].user])
       ELSE /\ Goto(p, "rm_delete", req[p])
            /\ UNCHANGED resp
    /\ UNCHANGED <<users, companies, memberships, tokens, jobs, interviewers, nextKey, txn>>

\* company_user.delete(): DELETE ... WHERE id = pk, which deletes nothing and
\* raises nothing when another worker has deleted the row already.
RemoveDelete(p) ==
    /\ pc[p] = "rm_delete"
    /\ LET i == First(MemberIdx(memberships, req[p].user, req[p].company)) IN
       memberships' = IF i = NoRow THEN memberships ELSE RemoveAt(memberships, i)
    /\ Answer(p, [Response("remove_company_user", 204) EXCEPT
                     !.company = req[p].company, !.user = req[p].user])
    /\ UNCHANGED <<users, companies, tokens, jobs, interviewers, nextKey, txn>>

\* The invite that gives the company its second administrator, as one step
\* between removals: a row is found again by its (user, company) pair, so no
\* row is created while a removal that has read the pair is in flight.
RemovalsInvite ==
    /\ InFlight = {}
    /\ InviteCompanyUser({"company_admin", "hr_manager"})

\* Two workers removing members of the company of a@acme.com.
NextRemovals ==
    \/ ConcAdminSignup
    \/ ConcCandidateSignup
    \/ RemovalsInvite
    \/ \E p \in Procs : RemoveStart(p)
    \/ \E p \in Procs : RemoveCount(p)
    \/ \E p \in Procs : RemoveGet(p)
    \/ \E p \in Procs : RemoveDelete(p)

SpecRemovals == Init /\ [][NextRemovals]_vars

(***************************************************************************)
(* company_admin_signup statement by statement.  The validation reads      *)
(* committed rows before the transaction; create_company_admin is one      *)
(* transaction.atomic(): its INSERTs stay uncommitted until the block      *)
(* ends, User.username and Company.subdomain are unique.                   *)
(***************************************************************************)
\* Another worker's open signup has inserted a company with this subdomain.
PendingCompany(p, sd) ==
    \E q \in Procs \ {p} : pc[q] = "su_commit" /\ req[q].subdomain = sd

\* validate_company_admin_signup_data and the view's 400.
SignupStart(p) ==
    /\ pc[p] = "idle"
    /\ KeyRoomFor(p)
    /\ \E e \in Emails, sd \in Subdomains :
          IF validate_company_admin_signup_data(
                 DB, [email |-> e, password |-> GoodPassword, subdomain |-> sd]) /= {}
          THEN Answer(p, Fail("company_admin_signup", 400, "validation"))
          ELSE /\ Goto(p, "su_user", [Idle EXCEPT !.op = "company_admin_signup",
                                                  !.email = e, !.subdomain = sd,
                                                  !.password = GoodPassword])
               /\ UNCHANGED resp
    /\ UNCHANGED <<users, companies, memberships, tokens, jobs, interviewers, nextKey, txn>>

\* An exception inside the atomic block: the block is rolled back and the
\* view answers 500.
SignupAbort(p, err) ==
    /\ txn' = [txn EXCEPT ![p] = NoTxn]
    /\ Answer(p, Fail("company_admin_signup", 500, err))
    /\ UNCHANGED <<users, companies, memberships, tokens, jobs, interviewers, nextKey>>

\* User.objects.create_user(username=email, ...)
\* Mutant: the user is created before the atomic block and committed at once.
SignupCreateUser_autocommit(p) ==
    /\ pc[p] = "su_user"
    /\ ~PendingUser(p, req[p].email)
    /\ IF UsernameTaken(users, req[p].email)
       THEN SignupAbort(p, "IntegrityError: username")
       ELSE /\ users' = Append(users, NewUser(req[p].email, req[p].password,
                                              "company_admin", "Ann", "Lee"))
            /\ txn' = [txn EXCEPT ![p].user = <<>>]
            /\ Goto(p, "su_company", [req[p] EXCEPT !.user = Len(users) + 1])
            /\ UNCHANGED <<companies, memberships, tokens, jobs, interviewers,
                           nextKey, resp>>
SignupCreateUser(p) ==
    /\ pc[p] = "su_user"
    /\ ~PendingUser(p, req[p].email)
    /\ IF UsernameTaken(users, req[p].email)
       THEN SignupAbort(p, "IntegrityError: username")
       ELSE /\ txn' = [txn EXCEPT ![p].user =
                          <<NewUser(req[p].email, req[p].password, "company_admin",
                                    "Ann", "Lee")>>]
            /\ Goto(p, "su_company", req[p])
            /\ UNCHANGED <<users, companies, memberships, tokens, jobs, interviewers,
                           nextKey, resp>>

\* Company.objects.create(subdomain=...): waits for an uncommitted row with
\* the same subdomain, fails on a committed one.
SignupCreateCompany(p) ==
    /\ pc[p] = "su_company"
    /\ ~PendingCompany(p, req[p].subdomain)
    /\ IF SubdomainTaken(companies, req[p].subdomain)
       THEN SignupAbort(p, "IntegrityError: subdomain")
       ELSE /\ Goto(p, "su_commit", req[p])
            /\ UNCHANGED <<users, companies, memberships, tokens, jobs, interviewers,
                           nextKey, resp, txn>>

\* CompanyUser.objects.create, Token.objects.get_or_create, the end of the
\* block and the 201.  The membership and the token belong to rows of this
\* transaction alone, so no other worker's statement meets them.
SignupCommit(p) ==
    /\ pc[p] = "su_commit"
    /\ LET us1 == users \o txn[p].user
           u == IF txn[p].user /= <<>> THEN Len(us1) ELSE req[p].user
           cs1 == Append(companies,
                         [name |-> "Acme", subdomain |-> req[p].subdomain,
                          status |-> "pending", contact_email |-> req[p].email,
                          description |-> ""])
           c == Len(cs1)
       IN /\ users' = us1
          /\ companies' = cs1
          /\ memberships' = Append(memberships, NewMember(u, c, "company_admin", NoRow))
          /\ tokens' = tokens \cup {[key |-> nextKey, user |-> u]}
          /\ nextKey' = nextKey + 1
          /\ Answer(p, [Response("company_admin_signup", 201) EXCEPT
                           !.user = u, !.company = c, !.token = nextKey])
    /\ txn' = [txn EXCEPT ![p] = NoTxn]
    /\ UNCHANGED <<jobs, interviewers>>

\* Two workers signing up company administrators.
NextSignups ==
    \/ \E p \in Procs : SignupStart(p)
    \/ \E p \in Procs : SignupCreateUser(p)
    \/ \E p \in Procs : SignupCreateCompany(p)
    \/ \E p \in Procs : SignupCommit(p)

SpecSignups == Init /\ [][NextSignups]_vars

(***************************************************************************)
(* Time.  The clock is read by timezone.now(); ticks records, for each      *)
(* expiry period that has elapsed, the next token key at that moment, so    *)
(* that the period in which a token was created can be told from its key.   *)
(***************************************************************************)
now == Len(ticks)
\* Token.created (auto_now_add): the period in which key k was issued.
created(k) == Cardinality({i \in 1..Len(ticks) : ticks[i] <= k})

\* One expiry period elapses; no handler runs.
Tick ==
    /\ now < MaxNow
    /\ ticks' = Append(ticks, nextKey)
    /\ UNCHANGED <<users, companies, memberships, tokens, jobs, interviewers, nextKey,
                   resp, pc, req, txn>>

NextExpiry ==
    \/ CompanyAdminSignup({"acme"})
    \/ InviteCompanyUser({"hr_manager"})
    \/ ValidateSetupToken
    \/ CompleteUserSetup
    \/ Tick

SpecExpiry == Init /\ [][NextExpiry]_vars

(***************************************************************************)
(* Properties.                                                             *)
(***************************************************************************)
InviteOps == {"invite_company_user", "invite_interviewer"}
SignupOps == {"company_admin_signup", "candidate_signup"}
\* The membership rows of user u in company c.
MemberRows(ms, u, c) == {ms[i] : i \in MemberIdx(ms, u, c)}

\* C1: a completed setup leaves the presented token unresolvable (validate-token
\* and complete-setup answer "Invalid token." for it, then and ever after), the
\* returned token is a new one that resolves to the user the presented token
\* resolved to, and that user has a usable password.  The first conjunct is
\* the handler applied to every reachable store in which the holder of a valid
\* token has no usable password; the second is every completed setup of a run.
C1_SetupRotatesToken ==
    /\ [](\A k \in Keys :
            TokenByKey(tokens, k) /= {} =>
              LET u == (CHOOSE t \in TokenByKey(tokens, k) : TRUE).user
                  s0 == [DB EXCEPT !.users[u].password = <<"!", "">>]
                  r == complete_user_setup(s0, [token |-> k, password |-> SetupPassword,
                                                first_name |-> "Bo", last_name |-> "Ray"])
              IN /\ ~has_usable_password(s0.users[u])
                 /\ r.resp.status = 200
                 /\ TokenByKey(r.db.tokens, k) = {}
                 /\ validate_setup_token(r.db, k).resp.error = "Invalid token."
                 /\ r.resp.token /= k
                 /\ TokenByKey(r.db.tokens, r.resp.token) = {[key |-> r.resp.token, user |-> u]}
                 /\ has_usable_password(r.db.users[u]))
    /\ [][ /\ (resp'.op = "complete_user_setup" /\ resp'.status = 200) =>
              /\ TokenByKey(tokens, resp'.old) = {[key |-> resp'.old, user |-> resp'.user]}
              /\ TokenByKey(tokens', resp'.old) = {}
              /\ validate_setup_token(DB', resp'.old).resp.error = "Invalid token."
              /\ complete_user_setup(DB', [token |-> resp'.old, password |-> SetupPassword,
                                           first_name |-> "Bo", last_name |-> "Ray"]
                                    ).resp.error = "Invalid token."
              /\ resp'.token /= resp'.old
              /\ TokenByKey(tokens', resp'.token) = {[key |-> resp'.token, user |-> resp'.user]}
              /\ has_usable_password(users'[resp'.user])
           /\ \A k \in Keys :
                (k < nextKey /\ TokenByKey(tokens, k) = {}) => TokenByKey(tokens', k) = {}
         ]_vars
\* An invited user has completed setup: the presented token is gone.
C1_Witness ==
    /\ resp.op = "complete_user_setup"
    /\ resp.status = 200
    /\ users[resp.user].user_type = "hr_manager"
    /\ users[resp.user].password = make_password(SetupPassword)
    /\ TokenByKey(tokens, resp.old) = {}

\* C2: an invite that creates the user leaves that user without a usable
\* password, and validate-setup-token on the issued token reports
\* requires_setup.
C2_InvitedUserRequiresSetup ==
    (resp.op \in InviteOps /\ resp.status = 201 /\ resp.new_user) =>
        /\ ~has_usable_password(users[resp.user])
        /\ resp.requires_setup
        /\ validate_setup_token(DB, resp.token).resp.requires_setup

\* C3: every company has an active company_admin membership.
C3_CompanyKeepsActiveAdmin ==
    \A c \in 1..Len(companies) : ActiveAdmins(memberships, c) /= {}

\* C4: a removal aimed at the only active company_admin membership of the
\* company is refused and changes no membership; with two active admins an
\* authorized removal of one of them returns 204 and deletes that row alone.
C4_LastAdminRemoval ==
    [][ resp'.op = "remove_company_user" =>
          LET c == resp'.company
              u == resp'.user
              admins == ActiveAdmins(memberships, c)
              target == MemberIdx(memberships, u, c)
          IN /\ (admins /= {} /\ admins = target) =>
                    /\ resp'.status \in {400, 403}
                    /\ memberships' = memberships
             /\ (Cardinality(admins) = 2 /\ target \subseteq admins /\ target /= {}
                 /\ resp'.status /= 403) =>
                    /\ resp'.status = 204
                    /\ Len(memberships') = Len(memberships) - 1
                    /\ memberships' = RemoveAt(memberships, First(target))
      ]_vars
\* The only admin asked to be removed and was refused; the row is still there.
C4_Witness ==
    /\ resp.op = "remove_company_user"
    /\ resp.status = 400
    /\ ActiveAdmins(memberships, resp.company) = MemberIdx(memberships, resp.user, resp.company)
    /\ Cardinality(ActiveAdmins(memberships, resp.company)) = 1
    /\ Len(memberships) = 2

\* C5: an invite with a role other than company_admin never takes the
\* company_admin role away from a membership.
C5_AdminNotDowngraded ==
    [][ (resp'.op \in InviteOps /\ resp'.role /= "company_admin") =>
          \A u \in 1..Len(users), c \in 1..Len(companies) :
             (\E m \in MemberRows(memberships, u, c) : m.role = "company_admin") =>
             (\A m \in MemberRows(memberships', u, c) : m.role = "company_admin")
                /\ MemberRows(memberships', u, c) /= {}
      ]_vars
\* An admin was re-invited as hr_manager and is still company_admin.
C5_Witness ==
    /\ resp.op = "invite_company_user"
    /\ resp.status = 201
    /\ resp.role = "hr_manager"
    /\ ~resp.new_user
    /\ \E m \in MemberRows(memberships, resp.user, resp.company) : m.role = "company_admin"

\* C8: a signup that created a user returns with that user holding a usable
\* password and exactly one token, the one in the response.
C8_SignupUsablePasswordOneToken ==
    (resp.op \in SignupOps /\ resp.status = 201) =>
        /\ resp.user \in 1..Len(users)
        /\ has_usable_password(users[resp.user])
        /\ Cardinality(TokenOfUser(tokens, resp.user)) = 1
        /\ TokenOfUser(tokens, resp.user) = {[key |-> resp.token, user |-> resp.user]}
C8_Witness ==
    /\ resp.op = "candidate_signup"
    /\ resp.status = 201
    /\ Len(users) = 2
    /\ users[resp.user].user_type = "candidate"

\* C9: a login whose password matches no user of that handle (or whose handle
\* is unknown) is answered 401 without a token, and a 401 login changes no
\* user, membership or token.
WrongCredentials(e, pw) ==
    \A i \in 1..Len(users) :
        (users[i].email = e \/ users[i].username = e) =>
            users[i].password /= make_password(pw)
C6_OneMembershipAfterRace ==
    /\ \A u \in 1..Len(users), c \in 1..Len(companies) :
          Cardinality(MemberIdx(memberships, u, c)) <= 1
    /\ (/\ resp.op \in InviteOps
        /\ resp.status = 201 \/ resp.error = "IntegrityError: user, company")
          => \E u \in UsersByEmail(users, resp.mail) :
                Cardinality(MemberIdx(memberships, u, resp.company)) = 1
\* Two invites of one user to one company raced, the loser's INSERT has just
\* been refused, both workers are done and one row exists.
C6_Witness ==
    /\ resp.op = "invite_company_user"
    /\ resp.error = "IntegrityError: user, company"
    /\ \A p \in Procs : pc[p] = "idle"
    /\ \E u \in UsersByEmail(users, resp.mail) :
          Cardinality(MemberIdx(memberships, u, resp.company)) = 1

\* C7: an invite that loses the race for the membership row of one (user,
\* company) to a concurrent invite does not end in an error: it completes
\* through the update path.
C7_RacingInviteCompletes ==
    resp.op \in InviteOps => resp.error /= "IntegrityError: user, company"

\* C10: every user who has been issued a token (every user is issued one in
\* the transaction or handler that creates the user) has exactly one token in
\* every state, the states inside a setup completion included.
C10_AlwaysExactlyOneToken ==
    \A u \in 1..Len(users) : Cardinality(TokenOfUser(tokens, u)) = 1

\* C11: in every state, under every interleaving of the workers' statements, a
\* (user, company) pair has at most one membership row.
C11_OneMembershipPerPair ==
    \A i, j \in 1..Len(memberships) :
        (memberships[i].user = memberships[j].user
         /\ memberships[i].company = memberships[j].company) => i = j
\* Both workers have seen no row for the same user and company; one holds the
\* uncommitted row, the other is about to insert its own.
C11_Witness ==
    /\ pc["w1"] = "inv_create_member"
    /\ pc["w2"] = "inv_commit"
    /\ req["w1"].email = req["w2"].email
    /\ req["w1"].company = req["w2"].company
    /\ req["w1"].user_exists
    /\ txn["w2"].member /= <<>>
    /\ Len(memberships) = 1

\* C12: an active company_admin who invites an unknown email as hr_manager is
\* answered 201, and the invite adds exactly one user, with that email, one
\* membership of that user in the company, with role hr_manager and status
\* active, exactly one token of that user, and dispatches exactly one
\* notification, addressed to that email.
C12_InviteUnknownAsHrManager ==
    /\ [](\A a \in 1..Len(users), c \in 1..Len(companies), e \in Emails :
            (is_company_admin(memberships, a, c) /\ UsersByEmail(users, e) = {}) =>
                invite_company_user_view(DB, a, c, e, "hr_manager").resp.status = 201)
    /\ [][ (/\ resp'.op = "invite_company_user"
            /\ resp'.status = 201
            /\ resp'.role = "hr_manager"
            /\ UsersByEmail(users, resp'.mail) = {}) =>
              LET u == resp'.user
                  c == resp'.company
              IN /\ Len(users') = Len(users) + 1
                 /\ SubSeq(users', 1, Len(users)) = users
                 /\ u = Len(users')
                 /\ UsersByEmail(users', resp'.mail) = {u}
                 /\ Len(memberships') = Len(memberships) + 1
                 /\ SubSeq(memberships', 1, Len(memberships)) = memberships
                 /\ Cardinality(MemberIdx(memberships', u, c)) = 1
                 /\ \A m \in MemberRows(memberships', u, c) :
                       m.role = "hr_manager" /\ m.status = "active"
                 /\ Cardinality(TokenOfUser(tokens', u)) = 1
                 /\ TokenOfUser(tokens', u) = {[key |-> resp'.token, user |-> u]}
                 /\ tokens \subseteq tokens'
                 /\ resp'.sent = <<resp'.mail>>
         ]_vars
\* The administrator has invited b@acme.com, unknown until then, as hr_manager.
C12_Witness ==
    /\ resp.op = "invite_company_user"
    /\ resp.status = 201
    /\ resp.role = "hr_manager"
    /\ resp.new_user
    /\ resp.mail = "b@acme.com"
    /\ users[resp.user].email = "b@acme.com"
    /\ resp.sent = <<"b@acme.com">>

\* C13: an invite by an administrator of the company accepts the role when it
\* is one of the membership roles (ROLE_CHOICES) and refuses every other role
\* with the invalid-role error, changing nothing.
C13_InviteRoleIsMembershipRole ==
    \A a \in 1..Len(users), c \in 1..Len(companies), e \in Emails,
       r \in ROLE_CHOICES \cup valid_roles \cup {"janitor"} :
        is_company_admin(memberships, a, c) =>
            LET out == invite_company_user_view(DB, a, c, e, r)
            IN IF r \in ROLE_CHOICES
               THEN out.resp.status = 201
               ELSE out.resp.error = "Invalid role" /\ out.db = DB

\* C14: every membership has a role of ROLE_CHOICES and a status of
\* STATUS_CHOICES.
C14_MembershipRoleAndStatusInChoices ==
    \A i \in 1..Len(memberships) :
        memberships[i].role \in ROLE_CHOICES /\ memberships[i].status \in STATUS_CHOICES

\* C15: is_company_member is true exactly for an authenticated user with an
\* active membership in the company (in some company, when no company is
\* given); is_company_admin exactly when such a membership is company_admin.
C15_GuardIsActiveMembership ==
    \A u \in 0..Len(users) :
        LET Active(c) == {m \in MemberRows(memberships, u, c) : m.status = "active"}
            Admin(c) == {m \in Active(c) : m.role = "company_admin"}
        IN /\ \A c \in 1..Len(companies) :
                /\ is_company_member(memberships, u, c) <=> (u /= NoRow /\ Active(c) /= {})
                /\ is_company_admin(memberships, u, c) <=> (u /= NoRow /\ Admin(c) /= {})
           /\ is_company_member(memberships, u, NoRow)
                <=> (u /= NoRow /\ \E c \in 1..Len(companies) : Active(c) /= {})
           /\ is_company_admin(memberships, u, NoRow)
                <=> (u /= NoRow /\ \E c \in 1..Len(companies) : Admin(c) /= {})
\* A user with an active company_admin membership in one company and a
\* pending_setup one in the other: a member and admin of the first only.
C15_Witness ==
    \E u \in 1..Len(users), c1, c2 \in 1..Len(companies) :
        /\ \E m \in MemberRows(memberships, u, c1) : m.status = "pending_setup"
        /\ \E m \in MemberRows(memberships, u, c2) : m.status = "active"
        /\ ~is_company_member(memberships, u, c1)
        /\ ~is_company_admin(memberships, u, c1)
        /\ is_company_admin(memberships, u, c2)
        /\ is_company_member(memberships, u, NoRow)

\* C16: in every state, whatever requests came before and whatever tokens the
\* user holds, a user without an active membership in a company is denied its
\* member-gated requests, a user without an active company_admin membership
\* is denied its admin-gated requests and these change nothing, and a user
\* who has the membership is not denied.
C16_GuardFollowsCurrentLedger ==
    \A u \in 1..Len(users), c \in 1..Len(companies) :
        LET member == \E m \in MemberRows(memberships, u, c) : m.status = "active"
            admin == \E m \in MemberRows(memberships, u, c) :
                        m.status = "active" /\ m.role = "company_admin"
            Denied(out) == out.resp.status = 403 /\ out.db = DB
        IN /\ (get_company(DB, u, c).resp.status = 403) <=> ~member
           /\ (list_company_users(DB, u, c).resp.status = 403) <=> ~member
           /\ \A e \in Emails, r \in {"company_admin", "hr_manager"} :
                Denied(invite_company_user_view(DB, u, c, e, r)) <=> ~admin
           /\ \A t \in 1..Len(users) :
                /\ Denied(update_company_user(DB, u, c, t, [role |-> "company_admin",
                                                            status |-> "active"]))
                      <=> ~admin
                /\ Denied(remove_company_user(DB, u, c, t)) <=> ~admin
\* A second administrator was made inactive by the first: the token is still
\* there, the membership no longer counts, and the requests are denied.
C16_Witness ==
    /\ resp.op = "update_company_user"
    /\ resp.status = 200
    /\ TokenOfUser(tokens, resp.user) /= {}
    /\ \E m \in MemberRows(memberships, resp.user, resp.company) :
          m.role = "company_admin" /\ m.status = "inactive"
    /\ \E a \in 1..Len(users) :
          a /= resp.user /\ is_company_admin(memberships, a, resp.company)
    /\ get_company(DB, resp.user, resp.company).resp.status = 403
    /\ remove_company_user(DB, resp.user, resp.company, resp.user).resp.status = 403

\* C17: a completion of the setup that fails at the creation of the new token
\* leaves nothing behind: the password it submitted is not the stored one
\* (unless it already was when the request began) and the token it presented
\* is still valid.
C17_SetupAllOrNothing ==
    [][\A p \in Procs :
          (pc[p] = "su_create" /\ pc'[p] = "idle" /\ resp'.status = 500)
          => /\ \/ users'[req[p].user].password /= make_password(req[p].password)
                \/ req[p].snap[1].password = make_password(req[p].password)
             /\ TokenByKey(tokens', req[p].key) /= {}]_vars
\* The window of C17: a login was answered with a token for the user while a
\* completion of that user's setup stood between its delete and its create.
C17_LoginInWindow ==
    \E p \in Procs :
        /\ pc[p] = "su_create"
        /\ resp.op = "login" /\ resp.status = 200 /\ resp.user = req[p].user
        /\ TokenByKey(tokens, resp.token) /= {}
        /\ resp.token /= req[p].key

\* C18: when a completion of the setup succeeds while another request with
\* the same token is in flight, the stored password is the one the successful
\* request submitted.
C18_StoredCredentialIsTheWinners ==
    [][\A p \in Procs :
          (/\ pc[p] = "su_create" /\ pc'[p] = "idle" /\ resp'.status = 200
           /\ \E q \in Procs \ {p} : /\ req[q].op = "complete_user_setup"
                                     /\ req[q].key = req[p].key)
          => users'[req[p].user].password = make_password(req[p].password)]_vars
\* In a race of two completions with one token, at most one is answered 200:
\* the second creation of a token for the user fails.
C18_SecondCreateFails ==
    \A p, q \in Procs :
        (/\ p /= q /\ pc[p] = "su_create" /\ pc[q] = "su_create"
         /\ req[p].key = req[q].key)
        => TokenByKey(tokens, req[p].key) = {}

\* C19: the token mailed by an invitation to a new user, once a whole expiry
\* period has passed since the period it was issued in, is rejected by
\* validate_setup_token and by complete_user_setup.
C19_ExpiredInvitationIsRejected ==
    (/\ resp.op = "invite_company_user" /\ resp.status = 201 /\ resp.new_user
     /\ now >= created(resp.token) + 2)
    => /\ validate_setup_token(DB, resp.token).resp.status /= 200
       /\ complete_user_setup(DB, [token |-> resp.token, password |-> SetupPassword,
                                   first_name |-> "Bo", last_name |-> "Ray"]).resp.status
             /= 200

\* C20: a completion of the setup that is answered 200 was made for a user
\* who had no usable password when the request arrived; the password of a
\* user who has one is never replaced through a token.
C20_SetupOnlyWithoutUsablePassword ==
    [][(/\ resp'.op = "complete_user_setup" /\ resp'.status = 200
        /\ tokens' /= tokens)
       => ~has_usable_password(users[resp'.user])]_vars

\* C21: complete_user_setup answers 400 "Token is required." / "Invalid
\* token." when the token is missing or resolves to nothing, and 400 with the
\* missing field when password, first_name or last_name is missing; a
\* complete_user_setup answered 400 changes no user (password, names, phone)
\* and no token.
C21_FailedSetupChangesNothing ==
    /\ [](\A k \in Keys \cup {NoKey}, pw \in {"", SetupPassword}, fn \in {"", "Bo"},
             ln \in {"", "Ray"} :
            LET out == complete_user_setup(DB, [token |-> k, password |-> pw,
                                               first_name |-> fn, last_name |-> ln,
                                               phone |-> "555"])
                unresolved == k = NoKey \/ TokenByKey(tokens, k) = {}
            IN /\ unresolved
                  => /\ out.resp.status = 400
                     /\ out.resp.error = IF k = NoKey THEN "Token is required."
                                         ELSE "Invalid token."
                     /\ out.db = DB
               /\ (~unresolved /\ (pw = "" \/ fn = "" \/ ln = ""))
                  => /\ out.resp.status = 400
                     /\ out.resp.error = "field is required"
                     /\ out.db = DB)
    /\ [][(resp'.op = "complete_user_setup" /\ resp'.status = 400)
          => UNCHANGED <<users, tokens, memberships, companies, nextKey>>]_vars
\* A completion with a valid token and the phone but no password was refused.
C21_Witness ==
    /\ resp.op = "complete_user_setup"
    /\ resp.status = 400
    /\ resp.error = "field is required"
    /\ \E t \in tokens : users[t.user].phone = "" /\ users[t.user].first_name /= "Bo"

InviteLabels ==
    {"inv_get_user", "inv_create_user", "inv_get_member", "inv_create_member",
     "inv_update_member", "inv_token", "inv_commit", "inv_mail"}
\* C22: the statements of an invite write no user, membership or token to
\* the store before the commit, and an invite that ends with an invalid role
\* or with an exception of its atomic block ends with the store as it was
\* and with none of its writes pending.
C22_FailedInviteLeavesNothing ==
    [][\A p \in Procs :
          /\ (pc[p] \in InviteLabels \ {"inv_commit"} /\ pc'[p] /= pc[p])
             => UNCHANGED <<users, memberships, tokens, companies>>
          /\ (/\ pc[p] \in InviteLabels \cup {"idle"} /\ pc'[p] = "idle"
              /\ (pc[p] = "idle" => pc' = pc)
              /\ resp'.op = "invite_company_user"
              /\ resp'.error \in InviteExceptions \cup {"Invalid role"})
             => /\ UNCHANGED <<users, memberships, tokens, companies>>
                /\ txn'[p] = NoTxn]_vars
\* An invite that had created the user in its transaction lost the race for
\* the username and was rolled back: the store holds the other request's user
\* only.
C22_Witness ==
    /\ resp.op = "invite_company_user"
    /\ resp.error = "IntegrityError: username"
    /\ \A p \in Procs : pc[p] = "idle" /\ txn[p] = NoTxn
    /\ Cardinality(UsersByEmail(users, resp.mail)) = 1

\* C23: the notification of an invite is dispatched by a step of its own
\* after the commit: when it is dispatched the request has nothing pending
\* and its user and membership are in the store, the dispatch changes nothing
\* in the store, no other step of an invite dispatches, and an invite that
\* was answered with an error has dispatched nothing.
C23_MailAfterCommit ==
    /\ []((resp.op = "invite_company_user" /\ resp.status /= 201) => resp.sent = <<>>)
    /\ [][/\ \A p \in Procs :
                (pc[p] = "inv_mail" /\ pc'[p] = "idle")
                => /\ resp'.sent = <<req[p].email>>
                   /\ txn[p] = NoTxn
                   /\ users[req[p].user].email = req[p].email
                   /\ MemberIdx(memberships, req[p].user, req[p].company) /= {}
                   /\ UNCHANGED <<users, memberships, tokens, companies>>
          /\ (resp'.op = "invite_company_user" /\ resp'.sent /= <<>> /\ resp' /= resp)
                => \E p \in Procs : pc[p] = "inv_mail" /\ pc'[p] = "idle"]_vars
\* The mail of an invite that created its user has gone out; user, membership
\* and token are in the store.
C23_Witness ==
    /\ resp.op = "invite_company_user" /\ resp.status = 201 /\ resp.new_user
    /\ resp.sent = <<resp.mail>>
    /\ users[resp.user].email = resp.mail
    /\ MemberIdx(memberships, resp.user, resp.company) /= {}
    /\ TokenByKey(tokens, resp.token) /= {}

\* C24: a login or an invite that succeeds for a user who has a token leaves
\* the tokens as they were and returns that token, so that successive logins
\* and invites return one value; and Token.objects.get_or_create applied to a
\* user without a token creates exactly one, which a second call returns.
C24_IssueOrGetIsIdempotent ==
    /\ [](\A u \in 1..Len(users) :
            LET s0 == [DB EXCEPT !.tokens = {t \in tokens : t.user /= u}]
                s1 == get_or_create_token(s0, u)
                s2 == get_or_create_token(s1, u)
            IN /\ Cardinality(TokenOfUser(s1.tokens, u)) = 1
               /\ s2 = s1
               /\ (TokenOfUser(tokens, u) /= {} => get_or_create_token(DB, u) = DB))
    /\ [][(/\ resp'.op \in {"login", "invite_company_user"}
           /\ resp'.status \in {200, 201}
           /\ resp'.user \in 1..Len(users)
           /\ TokenOfUser(tokens, resp'.user) /= {})
          => /\ tokens' = tokens
             /\ TokenOfUser(tokens, resp'.user) = {[key |-> resp'.token,
                                                    user |-> resp'.user]}]_vars
\* An existing user who was issued a token at signup has been invited and
\* then logs in: the login returns the token of the signup.
C24_Witness ==
    /\ resp.op = "login" /\ resp.status = 200
    /\ \E i \in 1..Len(memberships) :
          memberships[i].user = resp.user /\ memberships[i].invited_by /= NoRow
    /\ TokenOfUser(tokens, resp.user) = {[key |-> resp.token, user |-> resp.user]}
    /\ users[resp.user].first_name /= "Bo"

\* C25: no two companies have the same subdomain, and with a subdomain that
\* is taken the company signup and the explicit creation are refused and
\* create nothing.
C25_SubdomainsAreUnique ==
    /\ \A i, j \in 1..Len(companies) :
          companies[i].subdomain = companies[j].subdomain => i = j
    /\ \A i \in 1..Len(companies) :
          LET sd == companies[i].subdomain IN
          /\ \A a \in Authenticated, st \in {Absent, "active"} :
                LET out == create_company_view(DB, a, CompanyData("Beta", sd, "a@acme.com",
                                                                  Absent, st))
                IN out.resp.status = 400 /\ out.db = DB
          /\ \A e \in Emails :
                LET out == company_admin_signup(DB, [email |-> e, password |-> GoodPassword,
                                                     subdomain |-> sd])
                IN out.resp.status = 400 /\ out.db = DB
\* Two companies exist, one of them has been moved to another subdomain by an
\* update, and a creation with a taken subdomain has just been refused.
C25_Witness ==
    /\ resp.op = "create_company" /\ resp.status = 400
    /\ Len(companies) = 2
    /\ \E i \in 1..Len(companies) : companies[i].name = "Acme Ltd"

\* C26: a company that the explicit creation has just created has status
\* pending.
C26_CreatedCompanyIsPending ==
    (resp.op = "create_company" /\ resp.status = 201)
    => companies[resp.company].status = "pending"

\* C27: the status of a company changes only in a step of the operator.
C27_StatusChangedByOperatorOnly ==
    [][\A c \in 1..Len(companies) :
          companies'[c].status /= companies[c].status
          => resp'.op = "admin_set_status"]_vars

\* C28: an update by an active company_admin of the company that carries any
\* subset of name, contact_email and description answers 200 and leaves the
\* company with the supplied fields set and the others as they were.
C28_UpdateIsPartialMerge ==
    \A a \in Authenticated, c \in 1..Len(companies) :
        is_company_admin(memberships, a, c)
        => \A nm \in {Absent, "Acme Ltd"}, mail \in {Absent, "hr@acme.com"},
              desc \in {Absent, "We hire"} :
              LET d == CompanyData(nm, Absent, mail, desc, Absent)
                  out == update_company_view(DB, a, c, d)
              IN /\ out.resp.status = 200
                 /\ out.db.companies[c] =
                       [f \in DOMAIN companies[c] |->
                           IF d[f] = Absent THEN companies[c][f] ELSE d[f]]
                 /\ out.db = [DB EXCEPT !.companies[c] = out.db.companies[c]]

\* C29: no step changes the subdomain of a company.
C29_SubdomainNeverChanges ==
    [][\A c \in 1..Len(companies) :
          companies'[c].subdomain = companies[c].subdomain]_vars

\* C30: validate_setup_token changes nothing; for a token that resolves it
\* answers 200 with the token's user and requires_setup = not
\* has_usable_password, after which the token validates again with the same
\* answer and completes the setup; for a token that does not resolve it
\* answers 400 "Invalid token.".
C30_ValidateTokenReadsOnly ==
    /\ [](\A k \in Keys :
            LET out == validate_setup_token(DB, k)
                d == [token |-> k, password |-> SetupPassword, first_name |-> "Bo",
                      last_name |-> "Ray"]
            IN /\ out.db = DB
               /\ TokenByKey(tokens, k) = {}
                  => out.resp.status = 400 /\ out.resp.error = "Invalid token."
               /\ \A t \in TokenByKey(tokens, k) :
                     LET blank == [DB EXCEPT !.users[t.user].password = <<"!", "">>] IN
                     /\ out.resp.status = 200
                     /\ out.resp.user = t.user
                     /\ out.resp.requires_setup = ~has_usable_password(users[t.user])
                     /\ validate_setup_token(blank, k).resp.requires_setup
                     /\ validate_setup_token(out.db, k) = out
                     /\ complete_user_setup(out.db, d).resp.status = 200)
    /\ [][resp'.op = "validate_setup_token"
          => UNCHANGED <<users, memberships, tokens, companies, nextKey>>]_vars
\* The token mailed to an invited user has been validated and still resolves
\* to that user.
C30_Witness ==
    /\ resp.op = "validate_setup_token" /\ resp.status = 200
    /\ TokenByKey(tokens, resp.old) = {[key |-> resp.old, user |-> resp.user]}
    /\ \E i \in 1..Len(memberships) :
          memberships[i].user = resp.user /\ memberships[i].invited_by /= NoRow

\* C31: an invite with a valid role r of a user whose membership in the
\* company has role e leaves that membership with role r when r is
\* company_admin or e is not company_admin, and with role e otherwise; the
\* rest of the row, the other rows and their number stay, and with e = r the
\* memberships are not changed at all.
C31_ReinviteRolePolicy ==
    /\ [](\A i \in 1..Len(memberships), r \in valid_roles, by \in 1..Len(users) :
            LET e == memberships[i].role
                out == invite_company_user(DB, memberships[i].company,
                                           users[memberships[i].user].email, r, by)
                want == IF r = "company_admin" \/ e /= "company_admin" THEN r ELSE e
            IN /\ out.error = ""
               /\ out.db.memberships = [memberships EXCEPT ![i].role = want]
               /\ (e = r => out.db.memberships = memberships))
    /\ [][(/\ resp'.op = "invite_company_user" /\ resp'.status = 201
           /\ ~resp'.new_user
           /\ MemberIdx(memberships, resp'.user, resp'.company) /= {})
          => LET i == First(MemberIdx(memberships, resp'.user, resp'.company))
                 e == memberships[i].role
                 r == resp'.role
             IN memberships' = [memberships EXCEPT ![i].role =
                                   IF r = "company_admin" \/ e /= "company_admin"
                                   THEN r ELSE e]]_vars
\* A user who was first invited as hr_manager has been re-invited as
\* company_admin and holds that role.
C31_Witness ==
    /\ resp.op = "invite_company_user" /\ resp.status = 201
    /\ resp.role = "company_admin" /\ ~resp.new_user
    /\ users[resp.user].user_type = "hr_manager"
    /\ \E m \in MemberRows(memberships, resp.user, resp.company) :
          m.role = "company_admin" /\ m.invited_by /= NoRow

\* The membership rows of company c, by owner.
MembersOf(ms, c) == {m \in {ms[i] : i \in 1..Len(ms)} : m.company = c}
\* C32: for a user who holds no active company_admin membership in company
\* c, no request leaves a membership of c created, changed or deleted, or c
\* itself changed: the company invite, the member update, the member
\* removal, the company update, and the interviewer invite for a job of c.
C32_OnlyOwnAdminChangesCompany ==
    \A a \in Authenticated, c \in 1..Len(companies) :
        ~(\E m \in MembersOf(memberships, c) :
             m.user = a /\ m.role = "company_admin" /\ m.status = "active")
        => LET Kept(out) == /\ MembersOf(out.db.memberships, c) = MembersOf(memberships, c)
                            /\ out.db.companies[c] = companies[c]
           IN /\ \A e \in Emails, r \in valid_roles :
                    Kept(invite_company_user_view(DB, a, c, e, r))
              /\ \A u \in 1..Len(users) :
                    /\ Kept(remove_company_user(DB, a, c, u))
                    /\ \A r \in {Absent, "hr_manager"}, st \in {Absent, "inactive"} :
                          Kept(update_company_user(DB, a, c, u, [role |-> r, status |-> st]))
              /\ \A sd \in Subdomains :
                    Kept(update_company_view(DB, a, c,
                                             CompanyData("Acme Ltd", sd, "hr@acme.com",
                                                         Absent, Absent)))
              /\ \A j \in 1..Len(jobs), e \in Emails :
                    jobs[j].company = c => Kept(invite_interviewer_view(DB, a, j, e))


\* C33: the last-admin rule under concurrency: a company with an active
\* company_admin keeps one through removals that run at the same time,
\* whether two administrators each remove themselves or each the other.
C33_ConcurrentRemovalsKeepAnAdmin ==
    \A c \in 1..Len(companies) :
        \E m \in MembersOf(memberships, c) :
            m.role = "company_admin" /\ m.status = "active"


\* C34: of company-admin signups that run at the same time with the same
\* email or the same subdomain and both pass validation, one creates its
\* user, company, membership and token and the others create nothing: every
\* user administers exactly one company and has one token, every company has
\* exactly one membership, no email and no subdomain occurs twice, and a
\* signup that does not answer 201 leaves the store as it was.
C34_RacingSignupsCreateOneSet ==
    /\ [](/\ \A u \in 1..Len(users) :
                /\ Cardinality({i \in 1..Len(memberships) : memberships[i].user = u}) = 1
                /\ Cardinality(TokenOfUser(tokens, u)) = 1
                /\ Cardinality(UsersByEmail(users, users[u].email)) = 1
          /\ \A c \in 1..Len(companies) :
                /\ Cardinality(MembersOf(memberships, c)) = 1
                /\ \A m \in MembersOf(memberships, c) :
                      m.role = "company_admin" /\ m.status = "active"
                /\ \A c2 \in 1..Len(companies) :
                      companies[c2].subdomain = companies[c].subdomain => c2 = c)
    /\ [][\A p \in Procs :
            pc[p] /= "idle" /\ pc'[p] = "idle"
            => IF resp'.status = 201
               THEN /\ Len(users') = Len(users) + 1
                    /\ Len(companies') = Len(companies) + 1
                    /\ Len(memberships') = Len(memberships) + 1
                    /\ Cardinality(tokens') = Cardinality(tokens) + 1
               ELSE DB' = DB]_vars

\* Reached: a signup passed validation, lost the race for the subdomain to a
\* signup with another email, and was rolled back; one company exists.
C34_Witness ==
    /\ resp.op = "company_admin_signup"
    /\ resp.status = 500
    /\ resp.error = "IntegrityError: subdomain"
    /\ Len(companies) = 1
    /\ Len(users) = 1


\* C35: right after a successful company creation, by company-admin signup
\* or by the explicit create request, the new company has exactly one
\* membership: the creator's, with role company_admin and status active.
C35_NewCompanyHasItsCreatorAsAdmin ==
    [][resp'.op \in {"company_admin_signup", "create_company"} /\ resp'.status = 201
       /\ companies' /= companies
       => LET c == resp'.company
              creator == IF resp'.op = "create_company" THEN resp'.user ELSE Len(users')
          IN /\ Len(companies') = Len(companies) + 1
             /\ c = Len(companies')
             /\ creator = resp'.user
             /\ resp'.op = "create_company" => creator \in Authenticated
             /\ resp'.op = "company_admin_signup" => Len(users') = Len(users) + 1
             /\ Cardinality({i \in 1..Len(memberships') : memberships'[i].company = c}) = 1
             /\ \A m \in MembersOf(memberships', c) :
                   m.user = creator /\ m.role = "company_admin" /\ m.status = "active"]_vars

\* Reached: a signed-up administrator has created a second company and is
\* its only member.
C35_Witness ==
    /\ resp.op = "create_company"
    /\ resp.status = 201
    /\ resp.company = 2
    /\ \E m \in MembersOf(memberships, 2) :
          m.user = resp.user /\ m.role = "company_admin" /\ m.status = "active"
    /\ \E m \in MembersOf(memberships, 1) : m.user = resp.user


\* C36: after every successful invite for (company, email) the invited user
\* is an active member of that company (is_company_member answers true),
\* also when the user already had a membership there with status inactive
\* or pending_setup.
C36_InvitedUserIsActiveMember ==
    [][resp'.op = "invite_company_user" /\ resp'.status = 201
       => is_company_member(memberships', resp'.user, resp'.company)]_vars


\* C37: no operation hands the acting user a bearer token of a different
\* user who already has a usable password: an invite of an existing user
\* who has set a password of their own does not answer the inviting
\* administrator with that user's session token.
C37_InviteKeepsOthersTokens ==
    \A a \in Authenticated, c \in 1..Len(companies), e \in Emails, r \in valid_roles :
        LET out == invite_company_user_view(DB, a, c, e, r) IN
        out.resp.status = 201
        => \A t \in TokenByKey(tokens, out.resp.token) :
              \/ t.user = a
              \/ ~has_usable_password(users[t.user])
              \/ users[t.user].password = make_password(TempPassword)


\* C38: an invite whose email matches an existing user leaves that user's
\* record, every other user, every company and every membership of that user
\* in other companies as they were.  The rows it may write are the user's
\* membership in the inviting company, which exists afterwards, and the
\* user's token when the user had none.
C38_InviteOfExistingUserFrame ==
    [][resp'.op \in InviteOps /\ resp'.status = 201 /\ ~resp'.new_user
       => LET u == resp'.user
              c == resp'.company
          IN /\ users' = users
             /\ companies' = companies
             /\ jobs' = jobs
             /\ \E m \in MembersOf(memberships', c) : m.user = u
             /\ IF \A m \in MembersOf(memberships, c) : m.user /= u
                THEN /\ Len(memberships') = Len(memberships) + 1
                     /\ SubSeq(memberships', 1, Len(memberships)) = memberships
                ELSE /\ Len(memberships') = Len(memberships)
                     /\ \A i \in 1..Len(memberships) :
                           memberships'[i] /= memberships[i]
                           => memberships[i].user = u /\ memberships[i].company = c
             /\ IF TokenOfUser(tokens, u) /= {}
                THEN tokens' = tokens
                ELSE tokens' \ TokenOfUser(tokens', u) = tokens]_vars

\* Reached: a user who administers a company of their own has been invited
\* into another company; both memberships stand side by side.
C38_Witness ==
    /\ resp.op \in InviteOps
    /\ resp.status = 201
    /\ ~resp.new_user
    /\ \E m \in MembersOf(memberships, resp.company) :
          m.user = resp.user /\ m.role /= "company_admin"
    /\ \E i \in 1..Len(memberships) :
          /\ memberships[i].user = resp.user
          /\ memberships[i].company /= resp.company
          /\ memberships[i].role = "company_admin"


\* C39: inviting is idempotent on the store: a successful invite that
\* directly follows a successful invite with the same company, email and
\* role leaves the users, the memberships (role, status, invited_by) and the
\* tokens as the first one left them; only another notification is sent.
C39_RepeatedInviteChangesNothing ==
    [][/\ resp.op = "invite_company_user" /\ resp.status = 201
       /\ resp'.op = "invite_company_user" /\ resp'.status = 201
       /\ resp'.company = resp.company /\ resp'.mail = resp.mail /\ resp'.role = resp.role
       => /\ users' = users
          /\ memberships' = memberships
          /\ tokens' = tokens
          /\ companies' = companies
          /\ resp'.user = resp.user /\ resp'.token = resp.token
          /\ resp'.sent = <<resp.mail>>]_vars


\* Reached: an invite has answered 201 for a user who existed before it and
\* who holds, from an earlier invite, a membership of the company with the
\* role now asked for.
C39_Witness ==
    /\ resp.op = "invite_company_user"
    /\ resp.status = 201
    /\ ~resp.new_user
    /\ resp.role = "hr_manager"
    /\ \E m \in MembersOf(memberships, resp.company) :
          m.user = resp.user /\ m.role = resp.role /\ m.invited_by /= NoRow
    /\ Cardinality(TokenOfUser(tokens, resp.user)) = 1


\* C40: in every state reached through signups and invites each user's
\* login handle is their email and no two users have the same email, so the
\* login lookup by email or handle matches at most one user.
C40_HandleIsEmailAndUnique ==
    /\ \A u \in 1..Len(users) :
          /\ users[u].username = users[u].email
          /\ UsersByEmail(users, users[u].email) = {u}
    /\ \A h \in CasedEmails : Cardinality(UsersByHandle(users, h)) <= 1

=============================================================================
